---- MODULE Spec2Model ----
(***************************************************************************)
(* A model of the clockify-reconciliator enrichment engine                 *)
(* (src/src/steps/clockify-enricher.js and the shared date utilities).     *)
(*                                                                         *)
(* Numbers.  The program computes with hours as JavaScript numbers and     *)
(* with instants as Date values (whole milliseconds).  The model uses      *)
(* exact integer arithmetic in a unit of 0.2 ms, the largest unit in which *)
(* a millisecond (Date), a micro-hour (toFixed(6)), a minute (H:MM) and    *)
(* the 1e-3 h tolerance are all whole numbers.  Binary floating-point      *)
(* noise (of the order 1e-16 h) is not modelled.                           *)
(***************************************************************************)
EXTENDS Integers, Sequences, FiniteSets, TLC

VARIABLES
    \* ---- a call of splitTimeWindow (date-utils) ----
    startDate,      \* Date argument, in units since local midnight of day 0
    endDate,        \* Date argument
    durations,      \* number[] argument, hours in units
    segments,       \* the returned array of {start, end}
    splitOutcome,   \* "pending" | "ok" | "error" (the call threw)
    \* ---- an enricher run (clockify-enricher.js) ----
    clockifyRows,   \* rows of cache/clockify-cleaned.csv
    githubData,     \* items of cache/github-summary.json
    jiraData,       \* items of cache/jira-summary.json
    pc,             \* the section the script is about to execute
    matchResults,   \* Section 11: one MatchResult per row
    groupCursor,    \* Section 13: position of the loop over the groups
    workItems,      \* Section 13b: the work items, one per output row
    commitWeights,  \* Section 13: the weighted hour targets of the last prompt
    patternsFile,   \* cache/patterns.json: [exists, groups]
    progressFile,   \* cache/enrichment-progress.ndjson: [exists, lines]
    progressFileAlt, \* cache/enrichment-progress.json exists
    forceRefresh,   \* parsedArgs.values["force-refresh"] of the run
    patterns,       \* Section 10: the pattern groups in use
    processedKeys,  \* Section 15: keys found in the ledger
    batches,        \* Section 16
    batchCursor,    \* Section 17: position of the loop over the batches
    pendingResults, \* Section 17: elements of the parsed response still to handle
    standardizedRows, \* Section 18: rows of output/enriched-standardized.csv
    \* ---- observations of a run ----
    persistedAtStart, \* the ledger lines on disk when the run started
    progressItems,  \* what initCache returned to this run
    requestedKeys,  \* work item keys carried by this run's enrichment requests
    requests,       \* enrichment requests issued so far, over all runs
    lastResponse,   \* the provider's answer to the latest call of the run
    runs,           \* runs started so far
    \* ---- run-all (run-all.js) ----
    stateFile,      \* cache/run-state.json: [exists, completed, failedStep]
    mainPc,         \* where main() is: "idle" | "ask" | "loop" | "done" | "failed" | "killed"
    yesFlag,        \* --yes / -y was given to this invocation
    startFrom,      \* main's startFrom (0-based)
    stepIndex,      \* main's loop variable i (0-based)
    reportedStep,   \* the step of "Last run failed at step N", -1 when not printed
    stepsRun,       \* the steps this invocation has spawned, in order
    lastExit,       \* how the latest spawned step ended
    invocations     \* invocations of run-all so far

splitVars == <<startDate, endDate, durations, segments, splitOutcome>>
inputVars == <<clockifyRows, githubData, jiraData>>
matchVars == <<matchResults, groupCursor, workItems, commitWeights>>
fileVars == <<patternsFile, progressFile>>
enrichVars == <<processedKeys, batches, batchCursor, pendingResults>>
obsVars == <<persistedAtStart, progressItems, requestedKeys, requests, lastResponse, runs>>
argVars == <<progressFileAlt, forceRefresh>>
runVars == <<pc, matchVars, patterns, fileVars, enrichVars, standardizedRows, obsVars,
            argVars>>
runAllVars == <<stateFile, mainPc, yesFlag, startFrom, stepIndex, reportedStep,
                stepsRun, lastExit, invocations>>
vars == <<splitVars, inputVars, runVars, runAllVars>>

-----------------------------------------------------------------------------
(* Units *)

MsPerHour == 3600000
UnitsPerMs == 5

Ms == UnitsPerMs
Hour == MsPerHour * UnitsPerMs
Minute == Hour \div 60
Day == 24 * Hour
MicroHour == Hour \div 1000000
\* 0.001 h, the tolerance of the sum checks
MilliHour == Hour \div 1000

Abs(x) == IF x < 0 THEN -x ELSE x

\* Math.round: nearest multiple of g, a tie goes towards +infinity
RoundHalfUp(x, g) == ((2 * x + g) \div (2 * g)) * g

\* +(x).toFixed(6): nearest micro-hour, a tie goes away from zero
toFixed6(x) == IF x >= 0 THEN RoundHalfUp(x, MicroHour)
               ELSE -RoundHalfUp(-x, MicroHour)

\* new Date(value): the time value is truncated towards zero to a whole ms
TimeClip(x) == IF x >= 0 THEN (x \div Ms) * Ms ELSE -(((-x) \div Ms) * Ms)

RECURSIVE SumSeq(_)
SumSeq(s) == IF s = <<>> THEN 0 ELSE s[1] + SumSeq(Tail(s))

Last(s) == s[Len(s)]

RECURSIVE SeqsUpTo(_, _)
\* all sequences over S of length 0..n
SeqsUpTo(S, n) ==
    IF n = 0 THEN {<<>>}
    ELSE LET shorter == SeqsUpTo(S, n - 1)
         IN  shorter \cup {Append(s, x) : s \in {t \in shorter : Len(t) = n - 1}, x \in S}

-----------------------------------------------------------------------------
(* date-utils: splitTimeWindow *)

\* date-fns addHours(date, amount): date + amount * 3600000 ms as a new Date
addHours(date, amount) == TimeClip(date + amount)

RECURSIVE SliceFrom(_, _)
\* the for-loop of splitTimeWindow: currentStart advances to each currentEnd
SliceFrom(currentStart, ds) ==
    IF ds = <<>> THEN <<>>
    ELSE LET currentEnd == addHours(currentStart, ds[1])
         IN  <<[start |-> currentStart, end |-> currentEnd]>>
             \o SliceFrom(currentEnd, Tail(ds))

RECURSIVE SliceEachFromStart(_, _)
\* faulty variant: currentStart is never advanced
SliceEachFromStart(currentStart, ds) ==
    IF ds = <<>> THEN <<>>
    ELSE <<[start |-> currentStart, end |-> addHours(currentStart, ds[1])]>>
         \o SliceEachFromStart(currentStart, Tail(ds))

\* faulty variant: the sum of the durations is never checked
splitTimeWindowUnchecked(sd, ed, ds) ==
    IF ds = <<>> THEN [ok |-> FALSE, segments |-> <<>>]
    ELSE [ok |-> TRUE, segments |-> SliceFrom(sd, ds)]

\* faulty variant: every segment is measured from the window's start
splitTimeWindowUnchained(sd, ed, ds) ==
    IF ds = <<>> \/ Abs((ed - sd) - SumSeq(ds)) > MilliHour
    THEN [ok |-> FALSE, segments |-> <<>>]
    ELSE [ok |-> TRUE, segments |-> SliceEachFromStart(sd, ds)]

\* ok = FALSE stands for the thrown Error: nothing is returned
splitTimeWindow(sd, ed, ds) ==
    LET totalDuration == SumSeq(ds)
        windowDuration == ed - sd
    IN  IF ds = <<>> THEN [ok |-> FALSE, segments |-> <<>>]
        ELSE IF Abs(windowDuration - totalDuration) > MilliHour
        THEN [ok |-> FALSE, segments |-> <<>>]
        ELSE [ok |-> TRUE, segments |-> SliceFrom(sd, ds)]

-----------------------------------------------------------------------------
(* Values *)

\* a missing date: parseClockifyDate / parseISOToLocal threw, or null
NoDate == -1
\* null ticket id
NoTicket == ""

RECURSIVE Dedup(_)
\* Array.from(new Set(s)): first occurrences, in order
Dedup(s) ==
    IF s = <<>> THEN <<>>
    ELSE LET d == Dedup(SubSeq(s, 1, Len(s) - 1))
         IN  IF \E i \in 1..Len(d) : d[i] = Last(s) THEN d ELSE Append(d, Last(s))

Range(s) == {s[i] : i \in 1..Len(s)}

RECURSIVE MapIdx(_, _, _)
\* the indices i of 1..n, in order, for which Keep(i) holds
MapIdx(Keep(_), i, n) ==
    IF i > n THEN <<>>
    ELSE (IF Keep(i) THEN <<i>> ELSE <<>>) \o MapIdx(Keep, i + 1, n)

-----------------------------------------------------------------------------
(* ticket-extractor: extractTicketIds *)

\* A description is a sequence of words.  The words matching
\* /\b([A-Za-z]{2,10}-\d+)\b/ are the ticket tokens.
TicketTokens == {"sd-1", "SD-1", "SD-2"}

toUpperCase(w) == IF w = "sd-1" THEN "SD-1" ELSE w

extractTicketIds(text) ==
    LET matches == SelectSeq(text, LAMBDA w : w \in TicketTokens)
    IN  Dedup([i \in 1..Len(matches) |-> toUpperCase(matches[i])])

-----------------------------------------------------------------------------
(* date-utils: parsing and the day window *)

\* parseClockifyDate of a row's "Start Date" / "Start Time"; NoDate when the
\* strings are missing and the call throws
parseClockifyDate(instant) == instant

\* date-fns differenceInDays: the number of full days between two local
\* times, truncated towards zero (no daylight-saving change in the model)
differenceInDays(dateLeft, dateRight) ==
    IF dateLeft >= dateRight THEN (dateLeft - dateRight) \div Day
    ELSE -((dateRight - dateLeft) \div Day)

isWithinDayWindow(date, targetDate, windowDays) ==
    Abs(differenceInDays(date, targetDate)) <= windowDays

-----------------------------------------------------------------------------
(* Section 11, phase 1: exact matching of one row *)

\* evidence items are referred to by their index in githubData / jiraData,
\* which stands for the identity of the parsed JSON object

\* item.committed_at parsed and within +-1 day of the entry; a missing or
\* unparseable committed_at is skipped
NearItem(clockifyDate, item) ==
    /\ item.committed_at # NoDate
    /\ isWithinDayWindow(clockifyDate, item.committed_at, 1)

githubMatchesExactOf(clockifyTicketIds, github) ==
    IF Len(clockifyTicketIds) > 0
    THEN MapIdx(LAMBDA g : Range(github[g].ticket_ids) \cap Range(clockifyTicketIds) # {},
                1, Len(github))
    ELSE <<>>

githubMatchesNearOf(clockifyTicketIds, clockifyDate, github) ==
    IF Len(clockifyTicketIds) > 0
    THEN IF clockifyDate # NoDate
         THEN SelectSeq(githubMatchesExactOf(clockifyTicketIds, github),
                        LAMBDA g : NearItem(clockifyDate, github[g]))
         ELSE <<>>
    ELSE IF clockifyDate # NoDate
         THEN MapIdx(LAMBDA g : NearItem(clockifyDate, github[g]), 1, Len(github))
         ELSE <<>>

\* faulty variant: the exact matches are appended without filtering out the
\* near ones
PrioritizeUnfiltered(near, exact) == near \o exact

\* faulty variant: evidence order, the near matches are not moved forward
PrioritizeNone(near, exact) == exact

\* near matches first, then the other exact matches
Prioritize(near, exact) ==
    near \o SelectSeq(exact, LAMBDA x : x \notin Range(near))

\* faulty variant: a match without identifiers counts as "high"
ConfidenceNoMedium(clockifyTicketIds, githubMatches, jiraMatches) ==
    IF Len(githubMatches) > 0 \/ Len(jiraMatches) > 0 THEN "high" ELSE "low"

Confidence(clockifyTicketIds, githubMatches, jiraMatches) ==
    IF Len(clockifyTicketIds) > 0 /\ (Len(githubMatches) > 0 \/ Len(jiraMatches) > 0)
    THEN "high"
    ELSE IF Len(githubMatches) > 0 \/ Len(jiraMatches) > 0
    THEN "medium"
    ELSE "low"

\* the body of the for-loop over clockifyRows; i is the 0-based row index
ExactMatch(i, row, github, jira) ==
    LET clockifyTicketIds == extractTicketIds(row.Description)
        clockifyDate == parseClockifyDate(row.Start)
        exact == githubMatchesExactOf(clockifyTicketIds, github)
        near == githubMatchesNearOf(clockifyTicketIds, clockifyDate, github)
        githubMatches == Prioritize(near, exact)
        jiraMatches ==
            IF Len(clockifyTicketIds) > 0
            THEN MapIdx(LAMBDA j : jira[j].ticket_id \in Range(clockifyTicketIds),
                        1, Len(jira))
            ELSE <<>>
        confidence == Confidence(clockifyTicketIds, githubMatches, jiraMatches)
    IN  [ rowIndex |-> i,
          clockifyDate |-> clockifyDate,
          ticketIds |-> clockifyTicketIds,
          githubMatches |-> githubMatches,
          jiraMatches |-> jiraMatches,
          matchPhase |-> IF confidence = "low" THEN "none" ELSE "exact",
          confidence |-> confidence,
          \* set by later sections; absent (undefined) until then
          isMultiDayGroup |-> FALSE,
          groupTotalHours |-> 0,
          groupGithubMatches |-> <<>>,
          groupJiraMatches |-> <<>>,
          subTasks |-> <<>> ]

\* Section 11, phase 1, over all rows
ExactMatching ==
    /\ pc = "match"
    /\ matchResults' = [i \in 1..Len(clockifyRows) |->
                            ExactMatch(i - 1, clockifyRows[i], githubData, jiraData)]
    /\ pc' = "semantic"
    /\ UNCHANGED <<runAllVars, argVars, inputVars, splitVars, groupCursor, workItems, commitWeights,
                   patterns, fileVars,
                   enrichVars, standardizedRows, obsVars>>

-----------------------------------------------------------------------------
(* Section 11, phase 2: semantic matching *)

\* no call of the provider has been answered yet
NoResponse == [kind |-> "none"]

\* x.sha?.startsWith(shaPrefix); a sha is a sequence of characters
StartsWith(sha, shaPrefix) ==
    /\ Len(shaPrefix) <= Len(sha)
    /\ SubSeq(sha, 1, Len(shaPrefix)) = shaPrefix

\* Array.prototype.find / findIndex over 1..n: the first index, 0 if none
FirstIdx(S) == IF S = {} THEN 0 ELSE CHOOSE i \in S : \A j \in S : i <= j

\* one element res of the parsed array applied to matchResults.
\* res.github_match is <<>> (null) or the sha prefix after "COMMIT@sha=";
\* res.jira_match is NoTicket (null) or a ticket id; res.confidence is ""
\* when the field is missing.
ApplySemantic(mrs, res, github, jira) ==
    LET idx == FirstIdx({i \in 1..Len(mrs) : mrs[i].rowIndex = res.rowIndex})
        commit == FirstIdx({g \in 1..Len(github) :
                                StartsWith(github[g].sha, res.github_match)})
        j == FirstIdx({k \in 1..Len(jira) : jira[k].ticket_id = res.jira_match})
    IN  IF idx = 0 THEN mrs
        ELSE [mrs EXCEPT
                ![idx].matchPhase = "semantic",
                ![idx].confidence = IF res.confidence # "" THEN res.confidence ELSE @,
                ![idx].githubMatches =
                    IF res.github_match # <<>> /\ commit # 0 THEN Append(@, commit) ELSE @,
                ![idx].jiraMatches =
                    IF res.jira_match # NoTicket /\ j # 0 THEN Append(@, j) ELSE @]

RECURSIVE ApplySemanticAll(_, _, _, _)
ApplySemanticAll(mrs, parsed, github, jira) ==
    IF parsed = <<>> THEN mrs
    ELSE ApplySemanticAll(ApplySemantic(mrs, parsed[1], github, jira),
                          Tail(parsed), github, jira)

\* faulty variant: a failed call discards the exact-phase results
SemanticOutcomeDiscard(mrs, resp, github, jira) ==
    IF resp.kind = "array" THEN ApplySemanticAll(mrs, resp.parsed, github, jira)
    ELSE <<>>

\* the try-block of phase 2: an array is applied element by element; a
\* rejected call is caught and anything else is ignored
SemanticOutcome(mrs, resp, github, jira) ==
    IF resp.kind = "array" THEN ApplySemanticAll(mrs, resp.parsed, github, jira)
    ELSE mrs

\* A provider response: [kind |-> "throw"] (executeProvider rejects),
\* [kind |-> "other"] (the text parses to something that is no array, or does
\* not parse) or [kind |-> "array", parsed |-> <<...>>].
SemanticMatching(Responses) ==
    /\ pc = "semantic"
    /\ LET unmatched == SelectSeq(matchResults, LAMBDA m : m.matchPhase = "none")
       IN  IF Len(unmatched) > 0
           THEN \E resp \in Responses :
                    /\ matchResults' =
                          SemanticOutcome(matchResults, resp, githubData, jiraData)
                    /\ lastResponse' = resp
           ELSE UNCHANGED <<matchResults, lastResponse>>
    /\ pc' = "aggregate"
    /\ UNCHANGED <<runAllVars, argVars, inputVars, splitVars, groupCursor, workItems, commitWeights,
                   patterns, fileVars,
                   enrichVars, standardizedRows, persistedAtStart, progressItems,
                   requestedKeys, requests, runs>>

-----------------------------------------------------------------------------
(* Section 12: multi-day aggregation *)

\* parseHMM of a "Duration (h)" string "H:MM", given as <<H, MM>>
parseHMM(hmm) == hmm[1] * Hour + hmm[2] * Minute

\* the key of the groups Map: first ticket id, else the description, else
\* "UNASSIGNED"
Primary(m, rows) ==
    IF Len(m.ticketIds) > 0
    THEN [kind |-> "ticket", ticket |-> m.ticketIds[1], text |-> <<>>]
    ELSE IF rows[m.rowIndex + 1].Description # <<>>
    THEN [kind |-> "description", ticket |-> NoTicket,
          text |-> rows[m.rowIndex + 1].Description]
    ELSE [kind |-> "UNASSIGNED", ticket |-> NoTicket, text |-> <<>>]

\* groups.entries(): the groups in insertion order, each the positions of
\* its members in matchResults
Groups(mrs, rows) ==
    LET keys == Dedup([i \in 1..Len(mrs) |-> Primary(mrs[i], rows)])
    IN  [k \in 1..Len(keys) |->
            MapIdx(LAMBDA i : Primary(mrs[i], rows) = keys[k], 1, Len(mrs))]

GroupOf(mrs, rows, i) ==
    LET gs == Groups(mrs, rows)
    IN  gs[CHOOSE k \in 1..Len(gs) : i \in Range(gs[k])]

RECURSIVE FlatMap(_, _)
\* entries.flatMap(f) for a sequence of sequences
FlatMap(F(_), s) == IF s = <<>> THEN <<>> ELSE F(s[1]) \o FlatMap(F, Tail(s))

Aggregate(mrs, rows) ==
    [i \in 1..Len(mrs) |->
        LET entries == GroupOf(mrs, rows, i)
        IN  IF Len(entries) > 1
            THEN [mrs[i] EXCEPT
                    !.isMultiDayGroup = TRUE,
                    !.groupTotalHours =
                        SumSeq([k \in 1..Len(entries) |->
                                  parseHMM(rows[mrs[entries[k]].rowIndex + 1].Duration)]),
                    !.groupGithubMatches =
                        FlatMap(LAMBDA e : mrs[e].githubMatches, entries),
                    !.groupJiraMatches =
                        FlatMap(LAMBDA e : mrs[e].jiraMatches, entries)]
            ELSE mrs[i]]

Aggregation ==
    /\ pc = "aggregate"
    /\ matchResults' = Aggregate(matchResults, clockifyRows)
    /\ groupCursor' = 1
    /\ pc' = "decompose"
    /\ UNCHANGED <<runAllVars, argVars, inputVars, splitVars, workItems, commitWeights, patterns, fileVars,
                   enrichVars, standardizedRows, obsVars>>

-----------------------------------------------------------------------------
(* Section 13: task decomposition *)

\* a sub-task hours field that is missing: undefined, NaN after arithmetic
NaN == -1000000000

\* (t.hours || 0)
HoursOrZero(h) == IF h = NaN THEN 0 ELSE h

\* +(a + b).toFixed(6) and +(a - b).toFixed(6) on numbers that may be NaN
AddFixed(a, b) == IF a = NaN \/ b = NaN THEN NaN ELSE toFixed6(a + b)
SubFixed(a, b) == IF a = NaN \/ b = NaN THEN NaN ELSE toFixed6(a - b)

SumHours(ts) == SumSeq([i \in 1..Len(ts) |-> HoursOrZero(ts[i].hours)])

\* faulty variant: the delta is never added
ReconcileNot(parsed, totalHours) == parsed

\* "validate sum": a deviation of more than 1e-3 goes to the last sub-task.
\* Called with parsed non-empty (on an empty array the assignment throws).
Reconcile(parsed, totalHours) ==
    LET sum == SumHours(parsed)
    IN  IF Abs(sum - totalHours) > MilliHour
        THEN LET diff == toFixed6(totalHours - sum)
             IN  [parsed EXCEPT ![Len(parsed)].hours = AddFixed(@, diff)]
        ELSE parsed

\* the empty array, when it needs the correction, throws a TypeError
ReconcileThrows(parsed, totalHours) ==
    parsed = <<>> /\ Abs(0 - totalHours) > MilliHour

RECURSIVE AllocateNoCarry(_, _, _, _)
\* faulty variant: a sub-task that does not fit is cut and the cursor moves
\* past it, so its remainder is lost
AllocateNoCarry(queue, cursorIndex, remaining, assigned) ==
    IF remaining > 0 /\ cursorIndex <= Len(queue)
    THEN LET t == queue[cursorIndex]
         IN  IF t.hours # NaN /\ t.hours <= remaining
             THEN AllocateNoCarry(queue, cursorIndex + 1, toFixed6(remaining - t.hours),
                                  Append(assigned, t))
             ELSE AllocateNoCarry(queue, cursorIndex + 1, 0,
                                  Append(assigned, [t EXCEPT !.hours = remaining]))
    ELSE [subTasks |-> assigned, queue |-> queue, cursorIndex |-> cursorIndex]

RECURSIVE Allocate(_, _, _, _)
\* the while-loop of one entry: [subTasks, queue, cursorIndex] when it ends
Allocate(queue, cursorIndex, remaining, assigned) ==
    IF remaining > 0 /\ cursorIndex <= Len(queue)
    THEN LET t == queue[cursorIndex]
         IN  IF t.hours # NaN /\ t.hours <= remaining
             THEN Allocate(queue, cursorIndex + 1, toFixed6(remaining - t.hours),
                           Append(assigned, t))
             ELSE Allocate([queue EXCEPT ![cursorIndex].hours = SubFixed(t.hours, remaining)],
                           cursorIndex, 0,
                           Append(assigned, [t EXCEPT !.hours = remaining]))
    ELSE [subTasks |-> assigned, queue |-> queue, cursorIndex |-> cursorIndex]

\* faulty variant: the entry's sum is not adjusted
AdjustLastNot(subTasks, entryHours) == subTasks

\* "adjust last if needed": the entry's sub-tasks sum to its hours
AdjustLast(subTasks, entryHours) ==
    LET sum == SumSeq([i \in 1..Len(subTasks) |-> subTasks[i].hours])
        diff == toFixed6(entryHours - sum)
    IN  IF Abs(diff) > 0 /\ Len(subTasks) > 0
        THEN [subTasks EXCEPT ![Len(subTasks)].hours = toFixed6(@ + diff)]
        ELSE subTasks

RECURSIVE AllocateEntries(_, _, _, _, _, _)
\* the for-loop over the group's entries, sharing the queue and the cursor
AllocateEntries(mrs, rows, entries, totalHours, queue, cursorIndex) ==
    IF entries = <<>> THEN mrs
    ELSE LET e == entries[1]
             entryHours == IF mrs[e].isMultiDayGroup
                           THEN parseHMM(rows[mrs[e].rowIndex + 1].Duration)
                           ELSE totalHours
             a == Allocate(queue, cursorIndex, entryHours, <<>>)
         IN  AllocateEntries(
                 [mrs EXCEPT ![e].subTasks = AdjustLast(a.subTasks, entryHours)],
                 rows, Tail(entries), totalHours, a.queue, a.cursorIndex)

shouldDecompose(mrs, entries) ==
    \/ Len(entries) > 1
    \/ Len(entries) = 1 /\ Len(mrs[entries[1]].ticketIds) > 1

TotalHours(mrs, rows, entries) ==
    IF mrs[entries[1]].groupTotalHours # 0
    THEN mrs[entries[1]].groupTotalHours
    ELSE parseHMM(rows[mrs[entries[1]].rowIndex + 1].Duration)

MaxOf(S) == CHOOSE x \in S : \A y \in S : y <= x

\* +(totalHours * (num / den)).toFixed(6)
WeightedHours(totalHours, num, den) ==
    ((2 * totalHours * num + den * MicroHour) \div (2 * den * MicroHour)) * MicroHour

\* the highest story points among the Jira tickets linked to commit g;
\* jiraByTicket keeps the last of the matches of one ticket_id
StoryPointsOf(g, jiraMatches, jira) ==
    LET last(tid) == MaxOf({k \in 1..Len(jiraMatches) : jira[jiraMatches[k]].ticket_id = tid})
        linked == {tid \in Range(g.ticket_ids) :
                      \E k \in 1..Len(jiraMatches) : jira[jiraMatches[k]].ticket_id = tid}
    IN  MaxOf({0} \cup {jira[jiraMatches[last(tid)]].story_points : tid \in linked})

\* w.sp > 0 ? w.sp * (maxLines + 1) + w.lines : w.lines, per commit
CommitScores(githubMatches, jiraMatches, github, jira) ==
    LET lines(k) == github[githubMatches[k]].lines_added
                        + github[githubMatches[k]].lines_removed
        sp(k) == StoryPointsOf(github[githubMatches[k]], jiraMatches, jira)
        maxLines == MaxOf({1} \cup {lines(k) : k \in 1..Len(githubMatches)})
    IN  [k \in 1..Len(githubMatches) |->
            IF sp(k) > 0 THEN sp(k) * (maxLines + 1) + lines(k) ELSE lines(k)]

\* [{ sha, hours }] in the order of githubMatches
computeCommitWeights(githubMatches, jiraMatches, totalHours, github, jira) ==
    IF Len(githubMatches) = 0 THEN <<>>
    ELSE LET scores == CommitScores(githubMatches, jiraMatches, github, jira)
             sum == SumSeq(scores)
             totalScore == IF sum = 0 THEN Len(scores) ELSE sum
             equalShare == totalScore = Len(scores)
         IN  [k \in 1..Len(scores) |->
                [ sha |-> github[githubMatches[k]].sha,
                  hours |-> IF equalShare
                            THEN WeightedHours(totalHours, 1, Len(scores))
                            ELSE WeightedHours(totalHours, scores[k], totalScore) ]]

\* e.groupGithubMatches || e.githubMatches: the group's evidence where
\* Section 12 has set it
AllGithubMatches(mrs, entries) ==
    FlatMap(LAMBDA e : IF mrs[e].isMultiDayGroup THEN mrs[e].groupGithubMatches
                       ELSE mrs[e].githubMatches, entries)

AllJiraMatches(mrs, entries) ==
    FlatMap(LAMBDA e : IF mrs[e].isMultiDayGroup THEN mrs[e].groupJiraMatches
                       ELSE mrs[e].jiraMatches, entries)

\* one commit per sha, at the place of the sha's first occurrence and with
\* the object of its last
UniqueGithubMatches(mrs, entries, github) ==
    LET all == SelectSeq(AllGithubMatches(mrs, entries), LAMBDA g : github[g].sha # <<>>)
        shas == Dedup([k \in 1..Len(all) |-> github[all[k]].sha])
    IN  [k \in 1..Len(shas) |->
            all[MaxOf({i \in 1..Len(all) : github[all[i]].sha = shas[k]})]]

\* the weighted hour targets the prompt of a group carries, none with fewer
\* than two distinct commits
PromptTargets(mrs, rows, entries, github, jira) ==
    LET unique == UniqueGithubMatches(mrs, entries, github)
    IN  IF Len(unique) > 1
        THEN computeCommitWeights(unique, AllJiraMatches(mrs, entries),
                                  TotalHours(mrs, rows, entries), github, jira)
        ELSE <<>>

\* faulty variant: a failed call leaves the group's entries with a
\* placeholder sub-task
DecomposeOrPlaceholder(mrs, rows, entries, resp) ==
    LET totalHours == TotalHours(mrs, rows, entries)
    IN  IF resp.kind = "array" /\ ~ReconcileThrows(resp.parsed, totalHours)
        THEN AllocateEntries(mrs, rows, entries, totalHours,
                             Reconcile(resp.parsed, totalHours), 1)
        ELSE [i \in 1..Len(mrs) |->
                IF i \in Range(entries)
                THEN [mrs[i] EXCEPT !.subTasks = <<[description |-> <<"failed">>,
                                                    hours |-> 0,
                                                    ticket_id |-> NoTicket]>>]
                ELSE mrs[i]]

\* the try-block of one group on a response [kind, parsed]
Decompose(mrs, rows, entries, resp) ==
    LET totalHours == TotalHours(mrs, rows, entries)
    IN  IF resp.kind = "array" /\ ~ReconcileThrows(resp.parsed, totalHours)
        THEN AllocateEntries(mrs, rows, entries, totalHours,
                             Reconcile(resp.parsed, totalHours), 1)
        ELSE mrs

\* one iteration of the loop over groups.entries()
DecomposeGroup(Responses) ==
    /\ pc = "decompose"
    /\ groupCursor <= Len(Groups(matchResults, clockifyRows))
    /\ LET entries == Groups(matchResults, clockifyRows)[groupCursor]
       IN  IF shouldDecompose(matchResults, entries)
           THEN \E resp \in Responses :
                    /\ matchResults' = Decompose(matchResults, clockifyRows, entries, resp)
                    /\ lastResponse' = resp
                    /\ commitWeights' = PromptTargets(matchResults, clockifyRows, entries,
                                                      githubData, jiraData)
           ELSE /\ UNCHANGED <<matchResults, commitWeights>>
                /\ lastResponse' = NoResponse
    /\ groupCursor' = groupCursor + 1
    /\ UNCHANGED <<runAllVars, argVars, inputVars, splitVars, pc, workItems, patterns, fileVars,
                   enrichVars, standardizedRows, persistedAtStart, progressItems,
                   requestedKeys, requests, runs>>

-----------------------------------------------------------------------------
(* Section 13b: the work items *)

\* faulty variant: the key names the entry only
WorkItemKeyOfRow(rowIndex, subIndex) == <<rowIndex, 0>>

\* `${rowIndex}:${subIndex}`
WorkItemKey(rowIndex, subIndex) == <<rowIndex, subIndex>>

\* randomUUID(): one fresh identifier per split entry; 0 is null
UuidOfRow(rowIndex) == rowIndex + 1

FirstTicket(m) == IF Len(m.ticketIds) > 0 THEN m.ticketIds[1] ELSE NoTicket

\* faulty variant: a split entry carries its own commits
SplitGithubMatchesOwn(m) == m.githubMatches

\* m.groupGithubMatches || m.githubMatches || [], of a split entry
SplitGithubMatches(m) ==
    IF m.isMultiDayGroup THEN m.groupGithubMatches ELSE m.githubMatches

WorkItemsOf(m, rows) ==
    IF Len(m.subTasks) > 0
    THEN [k \in 1..Len(m.subTasks) |->
            LET subTask == m.subTasks[k]
            IN  [ workItemKey |-> WorkItemKey(m.rowIndex, k - 1),
                  rowIndex |-> m.rowIndex,
                  subIndex |-> k - 1,
                  draftDescription |-> subTask.description,
                  durationHours |-> subTask.hours,
                  ticketId |-> IF subTask.ticket_id # NoTicket THEN subTask.ticket_id
                               ELSE FirstTicket(m),
                  ticketIds |-> m.ticketIds,
                  splitGroupId |-> UuidOfRow(m.rowIndex),
                  subTaskCount |-> Len(m.subTasks),
                  githubMatches |-> SplitGithubMatches(m),
                  jiraMatches |-> IF m.isMultiDayGroup THEN m.groupJiraMatches
                                  ELSE m.jiraMatches,
                  clockifyDate |-> m.clockifyDate,
                  confidence |-> m.confidence,
                  matchPhase |-> m.matchPhase,
                  isMultiDayGroup |-> m.isMultiDayGroup,
                  groupTotalHours |-> m.groupTotalHours ]]
    ELSE << [ workItemKey |-> WorkItemKey(m.rowIndex, 0),
              rowIndex |-> m.rowIndex,
              subIndex |-> 0,
              draftDescription |-> rows[m.rowIndex + 1].Description,
              durationHours |-> parseHMM(rows[m.rowIndex + 1].Duration),
              ticketId |-> FirstTicket(m),
              ticketIds |-> m.ticketIds,
              splitGroupId |-> 0,
              subTaskCount |-> 1,
              githubMatches |-> m.githubMatches,
              jiraMatches |-> m.jiraMatches,
              clockifyDate |-> m.clockifyDate,
              confidence |-> m.confidence,
              matchPhase |-> m.matchPhase,
              isMultiDayGroup |-> m.isMultiDayGroup,
              groupTotalHours |-> m.groupTotalHours ] >>

\* Section 13b, then Section 14: the token estimate is shown and anything
\* but "y" ends the script
BuildWorkItems(TokenAnswers) ==
    /\ pc = "decompose"
    /\ groupCursor > Len(Groups(matchResults, clockifyRows))
    /\ workItems' = FlatMap(LAMBDA i : WorkItemsOf(matchResults[i], clockifyRows),
                            [i \in 1..Len(matchResults) |-> i])
    /\ \E tokenAns \in TokenAnswers : pc' = IF tokenAns = "y" THEN "resume" ELSE "exited"
    /\ UNCHANGED <<runAllVars, argVars, inputVars, splitVars, matchResults, groupCursor, commitWeights,
                   patterns, fileVars,
                   enrichVars, standardizedRows, obsVars>>

-----------------------------------------------------------------------------
(* shared/cache.js (README, "Cache helpers"): the NDJSON ledger *)

\* a line that JSON.parse rejects: the first bytes of a record, with its
\* line end or, at the end of the file, without it
Unparseable(ended) ==
    [ workItemKey |-> <<>>, rowIndex |-> -1, subIndex |-> -1,
      enriched_description |-> <<>>, ai_confidence |-> "",
      ai_notes |-> IF ended THEN "unparseable" ELSE "unended" ]

Parses(line) == line # Unparseable(TRUE) /\ line # Unparseable(FALSE)

\* the file does not end with a line end
Unended(file) ==
    file.exists /\ file.lines # <<>> /\ file.lines[Len(file.lines)] = Unparseable(FALSE)

\* readCache: every line that parses, in file order
readCache(file) == IF file.exists THEN SelectSeq(file.lines, Parses) ELSE <<>>

\* faulty variant: the file is written anew with the item
appendToCacheAnew(file, item) == [exists |-> TRUE, lines |-> <<item>>]

\* appendToCache: one JSON line appended; the file is created when missing
\* the bytes go to the end of the file: after an unended line they make one
\* line with it, which does not parse
appendToCache(file, item) ==
    [ exists |-> TRUE,
      lines |-> IF Unended(file)
                THEN [file.lines EXCEPT ![Len(file.lines)] = Unparseable(TRUE)]
                ELSE Append(IF file.exists THEN file.lines ELSE <<>>, item) ]

\* fs.appendFileSync cut short by the end of the process: the first bytes
\* of the line are in the file
appendCut(file) ==
    [ exists |-> TRUE,
      lines |-> IF Unended(file) THEN file.lines
                ELSE Append(IF file.exists THEN file.lines ELSE <<>>, Unparseable(FALSE)) ]

\* faulty variant: "start fresh" leaves the file as it is
initCacheFileKept(file, answer) == file

\* initCache(cachePath) without autoResume: when the file exists the user is
\* asked "Resume or start fresh? (r/s)"; any answer but "r" empties the file
initCacheFile(file, answer) ==
    IF file.exists /\ answer # "r" THEN [exists |-> TRUE, lines |-> <<>>] ELSE file

initCache(file, answer) ==
    IF file.exists /\ answer = "r" THEN readCache(file) ELSE <<>>

-----------------------------------------------------------------------------
(* Sections 9 and 10: force refresh, pattern detection *)

NoFile == [exists |-> FALSE, lines |-> <<>>]
NoPatterns == [exists |-> FALSE, groups |-> <<>>]

\* Section 9: --force-refresh unlinks patterns.json and the progress file.
\* Section 10: without patterns.json the provider is asked for the pattern
\* groups (resp), the file is written and the user accepts or not; the
\* script exits on an unparseable response and on a refusal.
\* faulty variant: --force-refresh removes nothing
UnlinkNot(force, file, missing) == file

\* Section 9: if (force-refresh) { if (fs.existsSync(p)) fs.unlinkSync(p) }
Unlink(force, file, missing) == IF force THEN missing ELSE file

StartRun(ForceChoices, PatternResponses, AcceptChoices) ==
    /\ pc = "start"
    /\ \E force \in ForceChoices, resp \in PatternResponses, accept \in AcceptChoices :
          LET pf == Unlink(force, patternsFile, NoPatterns)
              lf == Unlink(force, progressFile, NoFile)
          IN  /\ persistedAtStart' = readCache(progressFile)
              /\ forceRefresh' = force
              /\ progressFile' = lf
              /\ progressFileAlt' = Unlink(force, progressFileAlt, FALSE)
              /\ lastResponse' = IF pf.exists THEN NoResponse ELSE resp
              /\ IF pf.exists
                 THEN /\ patternsFile' = pf
                      /\ patterns' = pf.groups
                      /\ pc' = "match"
                 ELSE IF resp.kind # "object"
                 THEN /\ patternsFile' = pf
                      /\ patterns' = <<>>
                      /\ pc' = "exited"
                 ELSE /\ patternsFile' = [exists |-> TRUE, groups |-> resp.parsed]
                      /\ patterns' = resp.parsed
                      /\ pc' = IF accept = "y" THEN "match" ELSE "exited"
    /\ runs' = runs + 1
    /\ requestedKeys' = {}
    /\ progressItems' = <<>>
    /\ UNCHANGED <<runAllVars, inputVars, splitVars, matchVars, enrichVars, standardizedRows,
                   requests>>

-----------------------------------------------------------------------------
(* Section 15: resume detection *)

\* faulty variant: a line of the old format covers nothing
ProcessedKeysNoLegacy(items) ==
    {items[i].workItemKey : i \in {k \in 1..Len(items) : items[k].workItemKey # <<>>}}

\* a ledger line without workItemKey (old format) has workItemKey = <<>>
ProcessedKeys(items) ==
    {items[i].workItemKey : i \in {k \in 1..Len(items) : items[k].workItemKey # <<>>}}
    \cup {WorkItemKey(items[i].rowIndex, 0) :
             i \in {k \in 1..Len(items) : items[k].workItemKey = <<>>}}

ResumeDetection(Answers) ==
    /\ pc = "resume"
    /\ \E answer \in Answers :
          /\ progressItems' = initCache(progressFile, answer)
          /\ progressFile' = initCacheFile(progressFile, answer)
          /\ processedKeys' = ProcessedKeys(initCache(progressFile, answer))
    /\ pc' = "batch"
    /\ UNCHANGED <<runAllVars, argVars, inputVars, splitVars, matchVars, patterns, patternsFile, batches,
                   batchCursor, pendingResults, standardizedRows, persistedAtStart,
                   requestedKeys, requests, lastResponse, runs>>

-----------------------------------------------------------------------------
(* Section 16: smart batching *)

MAX_BATCH_SIZE == 10

\* formatDateFns(date, "yyyy-MM-dd"): the local calendar day
DayOf(date) == date \div Day

\* wi.ticketId || (wi.clockifyDate ? yyyy-MM-dd : "UNASSIGNED")
BatchKey(wi) ==
    IF wi.ticketId # NoTicket
    THEN [kind |-> "ticket", ticket |-> wi.ticketId, day |-> 0]
    ELSE IF wi.clockifyDate # NoDate
    THEN [kind |-> "date", ticket |-> NoTicket, day |-> DayOf(wi.clockifyDate)]
    ELSE [kind |-> "UNASSIGNED", ticket |-> NoTicket, day |-> 0]

\* faulty variant: a group is never split
ChunksWhole(arr) == <<arr>>

\* a byKey group cut into consecutive slices of at most MAX_BATCH_SIZE
Chunks(arr) ==
    IF Len(arr) <= MAX_BATCH_SIZE THEN <<arr>>
    ELSE [c \in 1..((Len(arr) + MAX_BATCH_SIZE - 1) \div MAX_BATCH_SIZE) |->
            SubSeq(arr, (c - 1) * MAX_BATCH_SIZE + 1,
                   IF c * MAX_BATCH_SIZE < Len(arr) THEN c * MAX_BATCH_SIZE ELSE Len(arr))]

\* faulty variant: processed work items are batched again
PendingAll(items, done) == items

\* the work items the byKey loop does not skip
Pending(items, done) == SelectSeq(items, LAMBDA wi : wi.workItemKey \notin done)

\* faulty variant: the pending work items are sliced without grouping them
BatchesUnkeyed(items, done) == Chunks(Pending(items, done))

Batches(items, done) ==
    LET pending == Pending(items, done)
        keys == Dedup([i \in 1..Len(pending) |-> BatchKey(pending[i])])
        byKey == [k \in 1..Len(keys) |->
                    SelectSeq(pending, LAMBDA wi : BatchKey(wi) = keys[k])]
    IN  FlatMap(Chunks, byKey)

SmartBatching ==
    /\ pc = "batch"
    /\ batches' = Batches(workItems, processedKeys)
    /\ batchCursor' = 1
    /\ pendingResults' = <<>>
    /\ pc' = "enrich"
    /\ UNCHANGED <<runAllVars, argVars, inputVars, splitVars, matchVars, patterns, fileVars, processedKeys,
                   standardizedRows, obsVars>>

-----------------------------------------------------------------------------
(* The provider's responses *)

Throw == [kind |-> "throw"]
Other == [kind |-> "other"]
Array(parsed) == [kind |-> "array", parsed |-> parsed]

\* a sub-task object of a decomposition response
SubTask(hours, ticket) ==
    [ description |-> <<"task">>, hours |-> hours, ticket_id |-> ticket,
      confidence |-> "medium" ]

\* a result object of an enrichment response
Result(key, description, notes) ==
    [ isNull |-> FALSE, workItemKey |-> key, enriched_description |-> description,
      description |-> <<>>, confidence |-> "high", notes |-> notes ]

NullResult ==
    [ isNull |-> TRUE, workItemKey |-> <<>>, enriched_description |-> <<>>,
      description |-> <<>>, confidence |-> "", notes |-> "" ]

\* the enrichment responses by kind: the call fails ("throw", "other"), or
\* the array answers every item of the batch once, twice with different
\* texts, once followed by a null element, or answers an item that is not
\* in the batch
EnrichmentResponse(kind, batch) ==
    LET ra == [i \in 1..Len(batch) |-> Result(batch[i].workItemKey, <<"impl">>, "note")]
        rb == [i \in 1..Len(batch) |-> Result(batch[i].workItemKey, <<"fix", "login">>, "")]
    IN  CASE kind = "throw" -> Throw
          [] kind = "other" -> Other
          [] kind = "once" -> Array(ra)
          [] kind = "twice" -> Array(ra \o rb)
          [] kind = "thenNull" -> Array(ra \o <<NullResult>>)
          [] OTHER -> Array(<<Result(WorkItemKey(9, 9), <<"impl">>, "")>>)

-----------------------------------------------------------------------------
(* Section 17: the enrichment loop *)

KeysOf(batch) == {batch[i].workItemKey : i \in 1..Len(batch)}

\* faulty variant: a failed call is logged and the loop goes on
AfterFailureContinue(cursor) == [pc |-> "enrich", batchCursor |-> cursor + 1]

\* the catch block: "Progress saved. Re-run to resume." and process.exit(1)
AfterFailure(cursor) == [pc |-> "exited", batchCursor |-> cursor]

\* one executeProvider call for the batch at the cursor, answered by a
\* response of one of the given kinds
EnrichBatch(Kinds) ==
    /\ pc = "enrich"
    /\ batchCursor <= Len(batches)
    /\ \E kind \in Kinds :
          LET resp == EnrichmentResponse(kind, batches[batchCursor])
          IN  /\ IF resp.kind = "array"
                 THEN /\ pendingResults' = resp.parsed
                      /\ pc' = "results"
                      /\ UNCHANGED batchCursor
                 ELSE /\ pendingResults' = <<>>
                      /\ pc' = AfterFailure(batchCursor).pc
                      /\ batchCursor' = AfterFailure(batchCursor).batchCursor
              /\ lastResponse' = resp
    /\ requestedKeys' = requestedKeys \cup KeysOf(batches[batchCursor])
    /\ requests' = requests + 1
    /\ UNCHANGED <<runAllVars, argVars, inputVars, splitVars, matchVars, patterns, fileVars, processedKeys,
                   batches, standardizedRows, persistedAtStart, progressItems, runs>>

\* batch.find((bi) => bi.workItemKey === workItemKey): its position, 0 if none
FindTarget(batch, workItemKey) ==
    FirstIdx({i \in 1..Len(batch) : batch[i].workItemKey = workItemKey})

FirstNonEmpty(a, b, c) == IF a # <<>> THEN a ELSE IF b # <<>> THEN b ELSE c

RecordOf(target, r) ==
    [ workItemKey |-> target.workItemKey,
      rowIndex |-> target.rowIndex,
      subIndex |-> target.subIndex,
      enriched_description |->
          FirstNonEmpty(r.enriched_description, r.description, target.draftDescription),
      ai_confidence |-> IF r.confidence # "" THEN r.confidence ELSE "low",
      ai_notes |-> r.notes ]

\* one iteration of "for (const r of parsed)"; a null element makes
\* r.workItemKey throw, which the catch block turns into exit(1)
HandleResult ==
    /\ pc = "results"
    /\ pendingResults # <<>>
    /\ LET r == pendingResults[1]
           batch == batches[batchCursor]
           target == FindTarget(batch, r.workItemKey)
       IN  IF r.isNull
           THEN /\ pc' = AfterFailure(batchCursor).pc
                /\ batchCursor' = AfterFailure(batchCursor).batchCursor
                /\ pendingResults' = <<>>
                /\ UNCHANGED progressFile
           ELSE /\ progressFile' =
                      IF target # 0
                      THEN appendToCache(progressFile, RecordOf(batch[target], r))
                      ELSE progressFile
                /\ pendingResults' = Tail(pendingResults)
                /\ UNCHANGED <<pc, batchCursor>>
    /\ UNCHANGED <<runAllVars, argVars, inputVars, splitVars, matchVars, patterns, patternsFile, processedKeys,
                   batches, standardizedRows, obsVars>>

\* the response is used up: on to the next batch
NextBatch ==
    /\ pc = "results"
    /\ pendingResults = <<>>
    /\ batchCursor' = batchCursor + 1
    /\ pc' = "enrich"
    /\ UNCHANGED <<runAllVars, argVars, inputVars, splitVars, matchVars, patterns, fileVars, processedKeys,
                   batches, pendingResults, standardizedRows, obsVars>>

-----------------------------------------------------------------------------
(* Section 18: timestamp splitting and output assembly *)

\* hoursToHMM: `${h}:${m}` as <<h, m>>, h = Math.floor(hours) and
\* m = Math.round((hours % 1) * 60); the remainder has the sign of hours
hoursToHMM(hours) ==
    LET h == hours \div Hour
        rem == IF hours >= 0 THEN hours % Hour ELSE -((-hours) % Hour)
    IN  <<h, RoundHalfUp(rem, Minute) \div Minute>>

toLowerCase(w) ==
    IF w \in {"SD-1", "sd-1"} THEN "sd-1" ELSE IF w = "SD-2" THEN "sd-2" ELSE w

\* text.includes(variant) for a one-word variant
Includes(description, variant) ==
    \E i \in 1..Len(description) : toLowerCase(description[i]) = toLowerCase(variant)

applyPatterns(description, groups) ==
    LET hit == FirstIdx({g \in 1..Len(groups) :
                            \E v \in groups[g].variants : Includes(description, v)})
    IN  IF hit = 0 THEN description
        ELSE IF groups[hit].suggested_standard # <<>>
        THEN groups[hit].suggested_standard
        ELSE description

\* formatClockifyDate + formatClockifyTime: the day and the minute of a Date
FormatDateTime(date) == (date \div Minute) * Minute

\* the empty object used when the ledger has nothing for a key
NoEnrichment ==
    [ workItemKey |-> <<>>, rowIndex |-> -1, subIndex |-> -1,
      enriched_description |-> <<>>, ai_confidence |-> "", ai_notes |-> "" ]

\* faulty variant: the ledger is not consulted
enrichmentByKeyNone(results, key) == NoEnrichment

\* new Map(results.map((r) => [r.workItemKey, r])).get(key): the last line
\* with that key
enrichmentByKey(results, key) ==
    LET hits == {i \in 1..Len(results) : results[i].workItemKey = key}
    IN  IF hits = {} THEN NoEnrichment
        ELSE results[CHOOSE i \in hits : \A j \in hits : j <= i]

\* enrichmentByIndex.get(rowIndex): the first line with that rowIndex
enrichmentByIndex(results, rowIndex) ==
    LET hit == FirstIdx({i \in 1..Len(results) : results[i].rowIndex = rowIndex})
    IN  IF hit = 0 THEN NoEnrichment ELSE results[hit]

\* buildAINotesForSplitRow / buildAINotesForNonSplitRow: the parts joined by
\* "; " - the provider's notes when not blank, then the deterministic
\* context (split position, first ticket, github and jira references)
AINotes(m, split, enrichment) ==
    (IF enrichment.ai_notes # "" THEN <<enrichment.ai_notes>> ELSE <<>>)
    \o (IF split # <<>>
        THEN <<"split " \o ToString(split[1]) \o "/" \o ToString(split[2])>>
        ELSE <<>>)
    \o (IF Len(m.ticketIds) > 0 THEN <<"matched via exact ticket " \o m.ticketIds[1]>>
        ELSE <<>>)
    \o (IF Len(m.githubMatches) > 0 THEN <<"github">> ELSE <<>>)
    \o (IF Len(m.jiraMatches) > 0 THEN <<"jira">> ELSE <<>>)

SplitRows(m, rows, results, groups, segs) ==
    [i \in 1..Len(m.subTasks) |->
        LET t == m.subTasks[i]
            enrichment == enrichmentByKey(results, WorkItemKey(m.rowIndex, i - 1))
            enrichedDescription ==
                IF enrichment.enriched_description # <<>>
                THEN enrichment.enriched_description ELSE t.description
        IN  [ rowIndex |-> m.rowIndex,
              subIndex |-> i - 1,
              Description |-> applyPatterns(enrichedDescription, groups),
              Start |-> FormatDateTime(segs[i].start),
              End |-> FormatDateTime(segs[i].end),
              Duration |-> hoursToHMM(t.hours),
              AI_Confidence |-> IF enrichment.ai_confidence # "" THEN enrichment.ai_confidence
                                ELSE IF t.confidence # "" THEN t.confidence ELSE "low",
              AI_Notes |-> AINotes(m, <<i, Len(m.subTasks)>>, enrichment),
              Split_Group_ID |-> UuidOfRow(m.rowIndex) ]]

NonSplitRow(m, rows, results, groups) ==
    LET byKey == enrichmentByKey(results, WorkItemKey(m.rowIndex, 0))
        enrichment == IF byKey # NoEnrichment THEN byKey
                      ELSE enrichmentByIndex(results, m.rowIndex)
        enrichedDescription ==
            IF enrichment.enriched_description # <<>>
            THEN enrichment.enriched_description
            ELSE rows[m.rowIndex + 1].Description
    IN  << [ rowIndex |-> m.rowIndex,
             subIndex |-> 0,
             Description |-> applyPatterns(enrichedDescription, groups),
             Start |-> FormatDateTime(rows[m.rowIndex + 1].Start),
             End |-> FormatDateTime(rows[m.rowIndex + 1].End),
             Duration |-> rows[m.rowIndex + 1].Duration,
             AI_Confidence |-> IF enrichment.ai_confidence # "" THEN enrichment.ai_confidence
                               ELSE m.confidence,
             AI_Notes |-> AINotes(m, <<>>, enrichment),
             Split_Group_ID |-> 0 ] >>

SegmentsOf(m, rows) ==
    splitTimeWindow(rows[m.rowIndex + 1].Start, rows[m.rowIndex + 1].End,
                    [i \in 1..Len(m.subTasks) |-> m.subTasks[i].hours])

\* the row cannot be written: its dates do not parse (parseClockifyDate
\* throws) or splitTimeWindow throws and the script exits
RowFails(m, rows) ==
    \/ rows[m.rowIndex + 1].Start = NoDate
    \/ rows[m.rowIndex + 1].End = NoDate
    \/ Len(m.subTasks) > 0 /\ ~SegmentsOf(m, rows).ok

RowsOf(m, rows, results, groups) ==
    IF Len(m.subTasks) > 0
    THEN SplitRows(m, rows, results, groups, SegmentsOf(m, rows).segments)
    ELSE NonSplitRow(m, rows, results, groups)

\* the batch loop has ended; the output files are written after the loop
\* over matchResults, so a failing row leaves no output
OutputAssembly ==
    /\ pc = "enrich"
    /\ batchCursor > Len(batches)
    /\ IF \E i \in 1..Len(matchResults) : RowFails(matchResults[i], clockifyRows)
       THEN /\ standardizedRows' = <<>>
            /\ pc' = "exited"
       ELSE /\ standardizedRows' =
                  FlatMap(LAMBDA i : RowsOf(matchResults[i], clockifyRows,
                                            readCache(progressFile), patterns),
                          [i \in 1..Len(matchResults) |-> i])
            /\ pc' = "done"
    /\ UNCHANGED <<runAllVars, argVars, inputVars, splitVars, matchVars, patterns, fileVars, enrichVars, obsVars>>

\* mirroredRows: the same rows without the three review columns
mirroredRows ==
    [i \in 1..Len(standardizedRows) |->
        [ Description |-> standardizedRows[i].Description,
          Start |-> standardizedRows[i].Start,
          End |-> standardizedRows[i].End,
          Duration |-> standardizedRows[i].Duration ]]

-----------------------------------------------------------------------------
(* The process: termination and the next invocation *)

Running == {"match", "semantic", "aggregate", "decompose", "resume", "batch",
            "enrich", "results"}

\* the run-local variables of a process that has not reached their sections
RunLocalInit ==
    /\ patterns = <<>>
    /\ processedKeys = {}
    /\ batches = <<>>
    /\ batchCursor = 0
    /\ pendingResults = <<>>
    /\ standardizedRows = <<>>
    /\ persistedAtStart = <<>>
    /\ progressItems = <<>>
    /\ requestedKeys = {}
    /\ lastResponse = NoResponse
    /\ forceRefresh = FALSE

RunLocalReset ==
    /\ matchResults' = <<>>
    /\ groupCursor' = 0
    /\ workItems' = <<>>
    /\ commitWeights' = <<>>
    /\ patterns' = <<>>
    /\ processedKeys' = {}
    /\ batches' = <<>>
    /\ batchCursor' = 0
    /\ pendingResults' = <<>>
    /\ standardizedRows' = <<>>
    /\ persistedAtStart' = <<>>
    /\ progressItems' = <<>>
    /\ requestedKeys' = {}
    /\ lastResponse' = NoResponse

\* the process is terminated from outside (Ctrl+C); its memory is gone, the
\* files stay as they are
Kill ==
    /\ pc \in Running
    /\ pc' = "killed"
    /\ RunLocalReset
    /\ UNCHANGED <<runAllVars, argVars, inputVars, splitVars, fileVars, requests, runs>>

\* the process is terminated while appendToCache writes the record of the
\* result at hand
KillInAppend ==
    /\ pc = "results"
    /\ pendingResults # <<>>
    /\ ~pendingResults[1].isNull
    /\ FindTarget(batches[batchCursor], pendingResults[1].workItemKey) # 0
    /\ progressFile' = appendCut(progressFile)
    /\ pc' = "killed"
    /\ RunLocalReset
    /\ UNCHANGED <<runAllVars, argVars, inputVars, splitVars, patternsFile, requests, runs>>

\* the script is invoked again on the same inputs and cache directory
Rerun(MaxRuns) ==
    /\ pc \in {"done", "exited", "killed"}
    /\ runs < MaxRuns
    /\ pc' = "start"
    /\ RunLocalReset
    /\ UNCHANGED <<runAllVars, argVars, inputVars, splitVars, fileVars, requests, runs>>

-----------------------------------------------------------------------------
(* run-all.js: the five steps run one after the other, with resume *)

STEPS ==
    << "clockify-preprocessor.js", "collect-direct-commits.js", "github-summarizer.js",
       "jira-summarizer.js", "clockify-enricher.js" >>

\* readState() of a missing file: null
NoState == [exists |-> FALSE, completed |-> FALSE, failedStep |-> -1]

readState(file) == file

writeState(state) ==
    [exists |-> TRUE, completed |-> state.completed, failedStep |-> state.failedStep]

clearState == NoState

\* how a spawned step can end: "close" with an exit code, "close" with code
\* null (the child was ended by a signal), or "error" (it could not be
\* spawned)
Null == -1
Close(code) == [kind |-> "close", code |-> code]
SpawnError == [kind |-> "error", code |-> Null]
NoExit == [kind |-> "none", code |-> Null, step |-> -1]

\* runStep: resolve(code ?? 0) on "close", resolve(1) on "error"
runStep(outcome) ==
    IF outcome.kind = "error" THEN 1
    ELSE IF outcome.code = Null THEN 0
    ELSE outcome.code

\* main() up to its first await: the question, or the first step
Main(YesFlags, MaxInvocations) ==
    /\ mainPc \in {"idle", "done", "failed", "killed"}
    /\ invocations < MaxInvocations
    /\ invocations' = invocations + 1
    /\ yesFlag' \in YesFlags
    /\ stepsRun' = <<>>
    /\ lastExit' = NoExit
    /\ LET state == readState(stateFile)
       IN  IF state.exists /\ ~state.completed /\ state.failedStep # -1
           THEN /\ reportedStep' = state.failedStep
                /\ UNCHANGED stateFile
                /\ IF yesFlag'
                   THEN /\ startFrom' = state.failedStep
                        /\ stepIndex' = state.failedStep
                        /\ mainPc' = "loop"
                   ELSE /\ startFrom' = 0
                        /\ stepIndex' = 0
                        /\ mainPc' = "ask"
           ELSE /\ reportedStep' = -1
                /\ stateFile' = IF state.exists /\ state.completed THEN clearState
                                ELSE stateFile
                /\ startFrom' = 0
                /\ stepIndex' = 0
                /\ mainPc' = "loop"
    /\ UNCHANGED <<splitVars, inputVars, runVars>>

\* the answer to "Resume from step N? [y/n]"
Answer(Answers) ==
    /\ mainPc = "ask"
    /\ \E answer \in Answers :
          IF answer \in {"y", "yes"}
          THEN /\ startFrom' = stateFile.failedStep
               /\ stepIndex' = stateFile.failedStep
               /\ UNCHANGED stateFile
          ELSE /\ stateFile' = clearState
               /\ startFrom' = 0
               /\ stepIndex' = 0
    /\ mainPc' = "loop"
    /\ UNCHANGED <<splitVars, inputVars, runVars, yesFlag, reportedStep, stepsRun,
                   lastExit, invocations>>

\* writeState({ completed: false, failedStep: i })
RecordFailure(file, i) == writeState([completed |-> FALSE, failedStep |-> i])

\* one iteration of the loop over STEPS, and what follows the loop after
\* the last step
RunStep(Outcomes) ==
    /\ mainPc = "loop"
    /\ stepIndex < Len(STEPS)
    /\ \E outcome \in Outcomes :
          LET code == runStep(outcome)
          IN  /\ lastExit' = [kind |-> outcome.kind, code |-> outcome.code,
                              step |-> stepIndex]
              /\ IF code # 0
                 THEN /\ stateFile' = RecordFailure(stateFile, stepIndex)
                      /\ mainPc' = "failed"
                      /\ UNCHANGED stepIndex
                 ELSE /\ stepIndex' = stepIndex + 1
                      /\ IF stepIndex + 1 < Len(STEPS)
                         THEN UNCHANGED <<stateFile, mainPc>>
                         ELSE /\ stateFile' = clearState
                              /\ mainPc' = "done"
    /\ stepsRun' = Append(stepsRun, stepIndex)
    /\ UNCHANGED <<splitVars, inputVars, runVars, yesFlag, startFrom, reportedStep,
                   invocations>>

\* run-all is killed while a step runs (Ctrl+C reaches the step and run-all,
\* which installs no signal handler)
Interrupt ==
    /\ mainPc = "loop"
    /\ stepIndex < Len(STEPS)
    /\ stepsRun' = Append(stepsRun, stepIndex)
    /\ lastExit' = [kind |-> "interrupt", code |-> Null, step |-> stepIndex]
    /\ mainPc' = "killed"
    /\ UNCHANGED <<splitVars, inputVars, runVars, stateFile, yesFlag, startFrom,
                   stepIndex, reportedStep, invocations>>

\* run-all is not running and has never run
RunAllIdle ==
    /\ stateFile = NoState
    /\ mainPc = "idle"
    /\ yesFlag = FALSE
    /\ startFrom = 0
    /\ stepIndex = 0
    /\ reportedStep = -1
    /\ stepsRun = <<>>
    /\ lastExit = NoExit
    /\ invocations = 0

SplitIdle ==
    /\ startDate = 0
    /\ endDate = 0
    /\ durations = <<>>
    /\ segments = <<>>
    /\ splitOutcome = "idle"

RunIdle ==
    /\ clockifyRows = <<>>
    /\ githubData = <<>>
    /\ jiraData = <<>>
    /\ pc = "idle"
    /\ matchResults = <<>>
    /\ groupCursor = 0
    /\ workItems = <<>>
    /\ commitWeights = <<>>
    /\ RunLocalInit
    /\ progressFileAlt = FALSE
    /\ patternsFile = NoPatterns
    /\ progressFile = NoFile
    /\ requests = 0
    /\ runs = 0

-----------------------------------------------------------------------------------------------------------------------------------------------------
(* The command lines and the answers typed at the prompts *)

\* --force-refresh absent / absent or given
NoRefresh == {FALSE}
RefreshOrNot == BOOLEAN

\* the pattern detection call returns no object
NoPatternsFound == {Other}

\* a provider call that throws
CallFails == {Throw}

\* the answers to the y/n questions
Accepted == {"y"}
YesOrNo == {"y", "n"}

\* the answers to "Resume or start fresh? (r/s)"
Resumed == {"r"}
ResumeOrFresh == {"r", "s"}

\* the enrichment responses: every item of the batch once / a failed call too
EachItemOnce == {"once"}
FailOrOnce == {"throw", "once"}

-----
(* Specification SpecSplit: one call of splitTimeWindow on bounded inputs *)

MaxDurations == 3

WindowStart == 9 * Hour
WindowLengths == {2 * Hour, 3 * Hour}

\* hours a caller may pass: whole and half hours, zero, thirds rounded to a
\* micro-hour, values 0.0005 h and 0.0015 h short of two hours, a value with
\* a fraction of a millisecond, and a negative number
DurationChoices ==
    { 0, Hour \div 2, Hour, 2 * Hour,
      2 * Hour - MilliHour \div 2, 2 * Hour - 3 * (MilliHour \div 2),
      1333333 * MicroHour, 1666667 * MicroHour,
      Hour + 1, -Hour }

SplitInit ==
    /\ RunAllIdle
    /\ startDate = WindowStart
    /\ endDate \in {WindowStart + w : w \in WindowLengths}
    /\ durations \in SeqsUpTo(DurationChoices, MaxDurations)
    /\ segments = <<>>
    /\ splitOutcome = "pending"
    /\ RunIdle

CallSplitTimeWindow ==
    /\ splitOutcome = "pending"
    /\ LET r == splitTimeWindow(startDate, endDate, durations)
       IN  /\ segments' = r.segments
           /\ splitOutcome' = IF r.ok THEN "ok" ELSE "error"
    /\ UNCHANGED <<startDate, endDate, durations, inputVars, runVars, runAllVars>>

SplitNext == CallSplitTimeWindow

SpecSplit == SplitInit /\ [][SplitNext]_vars

SplitEndsAtWindowEnd ==
    splitOutcome = "ok" => Last(segments).end = endDate

\* C5: a duration list whose sum differs from the window length by more
\* than 1e-3 h makes the call fail, and no interval is returned.
SplitRejectsBadSum ==
    (/\ splitOutcome # "pending"
     /\ Abs((endDate - startDate) - SumSeq(durations)) > MilliHour)
        => splitOutcome = "error" /\ segments = <<>>

SplitRejectsBadSumWitness ==
    /\ splitOutcome = "error"
    /\ Len(durations) >= 2
    /\ Abs((endDate - startDate) - SumSeq(durations)) > MilliHour
    /\ Abs((endDate - startDate) - SumSeq(durations)) < 2 * MilliHour

-----------------------------------------------------------------------------
(* Specification SpecMatch: Section 11 on bounded rows and evidence *)

MatchMaxRows == 1
MatchMaxCommits == 3

DayOne == Day + 9 * Hour

MatchDescriptions ==
    { <<"fix">>, <<"fix", "SD-1">>, <<"sd-1", "SD-1", "SD-2">>, <<>> }

\* a one-hour row with the given description and start
Row(desc, start, duration) ==
    [ Description |-> desc,
      Start |-> start,
      End |-> IF start = NoDate THEN NoDate
              ELSE start + duration[1] * Hour + duration[2] * Minute,
      Duration |-> duration ]

MatchRows ==
    { Row(d, s, <<1, 0>>) : d \in MatchDescriptions, s \in {DayOne, NoDate} }

\* commits 1 h, 47 h and 49 h after DayOne, or without a date
CommitDates ==
    { DayOne + Hour, DayOne + 47 * Hour, DayOne + 49 * Hour, NoDate }

Commit(tickets, at) ==
    [ sha |-> <<>>, ticket_ids |-> tickets, committed_at |-> at,
      lines_added |-> 0, lines_removed |-> 0 ]

\* commits carry distinct shas with a common first character
WithShas(commits) == [i \in 1..Len(commits) |-> [commits[i] EXCEPT !.sha = <<0, i>>]]

MatchCommits ==
    { Commit(t, at) : t \in {<<>>, <<"SD-1">>}, at \in CommitDates }

Jira(id, points) == [ ticket_id |-> id, story_points |-> points ]

MatchJira == { <<>>, <<Jira("SD-1", 0)>> }

MatchInit ==
    /\ RunAllIdle
    /\ clockifyRows \in SeqsUpTo(MatchRows, MatchMaxRows) \ {<<>>}
    /\ githubData \in {WithShas(c) : c \in SeqsUpTo(MatchCommits, MatchMaxCommits)}
    /\ jiraData \in MatchJira
    /\ pc = "match"
    /\ matchResults = <<>>
    /\ groupCursor = 0
    /\ workItems = <<>>
    /\ commitWeights = <<>>
    /\ RunLocalInit
    /\ progressFileAlt = FALSE
    /\ patternsFile = NoPatterns
    /\ progressFile = NoFile
    /\ requests = 0
    /\ runs = 1
    /\ SplitIdle

MatchNext == ExactMatching

SpecMatch == MatchInit /\ [][MatchNext]_vars

\* the exact matches of row i (0-based) and those of them the day window
\* accepts, read off the inputs
HasTicketOf(i, g) ==
    Range(githubData[g].ticket_ids)
        \cap {toUpperCase(w) : w \in Range(clockifyRows[i + 1].Description) \cap TicketTokens}
        # {}

InWindowOf(i, g) ==
    /\ clockifyRows[i + 1].Start # NoDate
    /\ githubData[g].committed_at # NoDate
    /\ Abs(clockifyRows[i + 1].Start - githubData[g].committed_at) < 2 * Day

-----------------------------------------------------------------------------
(* Specification SpecHours: one run over entries that are decomposed, the  *)
(* generator returning any list of up to MaxSubTasks sub-tasks             *)

MaxSubTasks == 3

\* 1 h, 2 h, 1.9995 h, 1.01 h, 0.98 h, 1.0000004 h, a missing value, 0, -1 h
HourChoices ==
    { Hour, 2 * Hour, 2 * Hour - Hour \div 2000, Hour + Hour \div 100,
      Hour - Hour \div 50, Hour + 7, NaN, 0, -Hour }

\* one 3:00 entry naming two tickets; a 3:00 and a 2:00 entry of one ticket
\* on consecutive days; one 1:20 entry naming two tickets
HoursRows ==
    { << Row(<<"fix", "SD-1", "SD-2">>, DayOne + 9 * Hour, <<3, 0>>) >>,
      << Row(<<"fix", "SD-1">>, DayOne + 9 * Hour, <<3, 0>>),
         Row(<<"SD-1">>, DayOne + Day + 9 * Hour, <<2, 0>>) >>,
      << Row(<<"fix", "SD-1", "SD-2">>, DayOne + 9 * Hour, <<1, 20>>) >> }

HoursDecompositions ==
    { Throw } \cup
    { Array([i \in 1..Len(hs) |->
                [SubTask(hs[i], NoTicket) EXCEPT !.description = <<"task", ToString(i)>>]]) :
        hs \in SeqsUpTo(HourChoices, MaxSubTasks) }

HoursInit ==
    /\ RunAllIdle
    /\ clockifyRows \in HoursRows
    /\ githubData = <<>>
    /\ jiraData = <<>>
    /\ pc = "start"
    /\ matchResults = <<>>
    /\ groupCursor = 0
    /\ workItems = <<>>
    /\ commitWeights = <<>>
    /\ RunLocalInit
    /\ progressFileAlt = FALSE
    /\ patternsFile = [exists |-> TRUE, groups |-> <<>>]
    /\ progressFile = NoFile
    /\ requests = 0
    /\ runs = 0
    /\ SplitIdle

HoursNext ==
    \/ StartRun(NoRefresh, NoPatternsFound, Accepted)
    \/ ExactMatching
    \/ SemanticMatching(CallFails)
    \/ Aggregation
    \/ DecomposeGroup(HoursDecompositions)
    \/ BuildWorkItems(Accepted)
    \/ ResumeDetection(Resumed)
    \/ SmartBatching
    \/ EnrichBatch(EachItemOnce)
    \/ HandleResult
    \/ NextBatch
    \/ OutputAssembly

SpecHours == HoursInit /\ [][HoursNext]_vars

\* the work items / the output rows derived from entry i (0-based)
WorkItemsOfEntry(i) == SelectSeq(workItems, LAMBDA wi : wi.rowIndex = i)
RowsOfEntry(i) == SelectSeq(standardizedRows, LAMBDA r : r.rowIndex = i)

EntryHours(i) == parseHMM(clockifyRows[i + 1].Duration)

BuiltWorkItems == pc \in {"resume", "batch", "enrich", "results", "done"}

OutputDurationsPreserved ==
    pc = "done" =>
        \A i \in 0..(Len(clockifyRows) - 1) :
            LET rs == RowsOfEntry(i)
            IN  SumSeq([k \in 1..Len(rs) |-> parseHMM(rs[k].Duration)]) = EntryHours(i)

-----------------------------------------------------------------------------
(* Specification SpecBatch: Section 16 on up to MaxItems work items *)

MaxItems == 30

\* how the batching keys are spread over the work items
KeyPatterns == {"one", "two", "dates", "mixed"}

BatchTicket(pattern, i) ==
    CASE pattern = "one" -> "SD-1"
      [] pattern = "two" -> IF i % 2 = 0 THEN "SD-1" ELSE "SD-2"
      [] pattern = "dates" -> NoTicket
      [] OTHER -> IF i % 3 = 0 THEN "SD-1" ELSE NoTicket

BatchDate(pattern, i) ==
    CASE pattern = "dates" -> DayOne + (i % 2) * Day
      [] pattern = "mixed" -> IF i % 3 = 1 THEN DayOne ELSE NoDate
      [] OTHER -> DayOne

\* the work item of the unsplit entry i (0-based)
BatchItem(pattern, i) ==
    [ workItemKey |-> WorkItemKey(i, 0),
      rowIndex |-> i,
      subIndex |-> 0,
      draftDescription |-> <<"work">>,
      durationHours |-> Hour,
      ticketId |-> BatchTicket(pattern, i),
      ticketIds |-> IF BatchTicket(pattern, i) = NoTicket THEN <<>>
                    ELSE <<BatchTicket(pattern, i)>>,
      splitGroupId |-> 0,
      subTaskCount |-> 1,
      githubMatches |-> <<>>,
      jiraMatches |-> <<>>,
      clockifyDate |-> BatchDate(pattern, i),
      confidence |-> "low",
      matchPhase |-> "none",
      isMultiDayGroup |-> FALSE,
      groupTotalHours |-> 0 ]

\* the ledger held nothing, every fourth entry, or the first five entries
ProcessedPatterns(n) ==
    { {},
      {WorkItemKey(i, 0) : i \in {j \in 0..(n - 1) : j % 4 = 0}},
      {WorkItemKey(i, 0) : i \in {j \in 0..(n - 1) : j < 5}} }

BatchInit ==
    /\ RunAllIdle
    /\ clockifyRows = <<>>
    /\ githubData = <<>>
    /\ jiraData = <<>>
    /\ pc = "batch"
    /\ matchResults = <<>>
    /\ groupCursor = 0
    /\ commitWeights = <<>>
    /\ \E n \in 0..MaxItems, pattern \in KeyPatterns :
          /\ workItems = [k \in 1..n |-> BatchItem(pattern, k - 1)]
          /\ processedKeys \in ProcessedPatterns(n)
    /\ patterns = <<>>
    /\ batches = <<>>
    /\ batchCursor = 0
    /\ pendingResults = <<>>
    /\ standardizedRows = <<>>
    /\ persistedAtStart = <<>>
    /\ progressItems = <<>>
    /\ requestedKeys = {}
    /\ lastResponse = NoResponse
    /\ forceRefresh = FALSE
    /\ progressFileAlt = FALSE
    /\ patternsFile = [exists |-> TRUE, groups |-> <<>>]
    /\ progressFile = NoFile
    /\ requests = 0
    /\ runs = 1
    /\ SplitIdle

BatchNext == SmartBatching

SpecBatch == BatchInit /\ [][BatchNext]_vars

\* the work items still to enrich that have batching key k, in order
PendingWithKey(k) ==
    SelectSeq(workItems, LAMBDA wi : wi.workItemKey \notin processedKeys /\ BatchKey(wi) = k)

PendingKeys ==
    {BatchKey(workItems[i]) :
        i \in {j \in 1..Len(workItems) : workItems[j].workItemKey \notin processedKeys}}

\* the batches holding an item of key k, in order
BatchesWithKey(k) ==
    SelectSeq(batches, LAMBDA b : \E i \in 1..Len(b) : BatchKey(b[i]) = k)

\* C9: the N pending work items of one batching key are put into exactly
\* ceil(N/10) batches of at most 10 items each, whose concatenation is the
\* N items in their original order.
BatchBound ==
    pc = "enrich" =>
        \A k \in PendingKeys :
            LET items == PendingWithKey(k)
                bs == BatchesWithKey(k)
            IN  /\ Len(bs) = (Len(items) + 9) \div 10
                /\ \A c \in 1..Len(bs) : Len(bs[c]) <= 10
                /\ FlatMap(LAMBDA b : b, bs) = items

\* 21 or more pending items of one key, some items of the key already done
BatchBoundWitness ==
    /\ pc = "enrich"
    /\ processedKeys # {}
    /\ \E k \in PendingKeys :
          /\ Len(PendingWithKey(k)) > 20
          /\ Len(BatchesWithKey(k)) = 3
          /\ Len(BatchesWithKey(k)[3]) < 10

\* where work item i lies in the batches: <<batch, position>>
PlacesOf(i) ==
    { <<c, q>> \in (1..Len(batches)) \X (1..MAX_BATCH_SIZE) :
        q <= Len(batches[c]) /\ batches[c][q] = workItems[i] }

-----------------------------------------------------------------------------
(* Specification Spec: up to MaxRuns invocations of the script on the same *)
(* inputs and cache directory, with failures and terminations              *)

MaxRuns == 2

\* one 3:00 entry naming two tickets; three 1:00 entries with three
\* different batching keys
RunRows ==
    { << Row(<<"fix", "SD-1", "SD-2">>, DayOne + 9 * Hour, <<3, 0>>) >>,
      << Row(<<"fix", "SD-1">>, DayOne + 9 * Hour, <<1, 0>>),
         Row(<<"meeting">>, DayOne + 11 * Hour, <<1, 0>>),
         Row(<<"review">>, DayOne + Day + 9 * Hour, <<1, 0>>) >> }

\* a ledger line of the old format: rowIndex without workItemKey
LegacyRecord(rowIndex) ==
    [ workItemKey |-> <<>>, rowIndex |-> rowIndex, subIndex |-> -1,
      enriched_description |-> <<"old">>, ai_confidence |-> "medium", ai_notes |-> "" ]

RunLedgers == { NoFile, [exists |-> TRUE, lines |-> <<LegacyRecord(0)>>] }

LoginGroup == [ variants |-> {"login"}, suggested_standard |-> <<"Fix", "Login">> ]

RunPatternResponses ==
    { Throw, [kind |-> "object", parsed |-> <<>>],
      [kind |-> "object", parsed |-> <<LoginGroup>>] }

RunDecompositions ==
    { Throw, Array(<<SubTask(Hour, "SD-1"), SubTask(2 * Hour, "SD-2")>>) }

RunEnrichments == {"throw", "other", "once", "twice", "thenNull", "foreign"}

Init ==
    /\ RunAllIdle
    /\ clockifyRows \in RunRows
    /\ githubData = <<>>
    /\ jiraData = <<>>
    /\ pc = "start"
    /\ matchResults = <<>>
    /\ groupCursor = 0
    /\ workItems = <<>>
    /\ commitWeights = <<>>
    /\ RunLocalInit
    /\ progressFileAlt = FALSE
    /\ patternsFile = NoPatterns
    /\ progressFile \in RunLedgers
    /\ requests = 0
    /\ runs = 0
    /\ SplitIdle

Next ==
    \/ StartRun(RefreshOrNot, RunPatternResponses, YesOrNo)
    \/ ExactMatching
    \/ SemanticMatching(CallFails)
    \/ Aggregation
    \/ DecomposeGroup(RunDecompositions)
    \/ BuildWorkItems(YesOrNo)
    \/ ResumeDetection(ResumeOrFresh)
    \/ SmartBatching
    \/ EnrichBatch(RunEnrichments)
    \/ HandleResult
    \/ NextBatch
    \/ OutputAssembly
    \/ Kill
    \/ Rerun(MaxRuns)

Spec == Init /\ [][Next]_vars

\* the work item keys a sequence of ledger lines stands for
LedgerKeys(items) ==
    {IF items[i].workItemKey = <<>> THEN <<items[i].rowIndex, 0>>
     ELSE items[i].workItemKey : i \in 1..Len(items)}

\* the lines of a ledger written for key k
RecordsOfKey(items, k) == SelectSeq(items, LAMBDA rec : rec.workItemKey = k)

PastResume == pc \in {"batch", "enrich", "results", "done"}

\* the run has taken over every line persisted at its start, and no work
\* item with a key of these lines is batched, requested or recorded again
LedgeredItemsExcluded ==
    /\ progressItems = persistedAtStart
    /\ \A k \in LedgerKeys(persistedAtStart) :
          /\ k \notin requestedKeys
          /\ \A b \in 1..Len(batches) : k \notin KeysOf(batches[b])
          /\ RecordsOfKey(readCache(progressFile), k) = RecordsOfKey(persistedAtStart, k)

RowKey(row) == <<row.rowIndex, row.subIndex>>

\* C7 as stated: the row written for an item that had a ledger record when
\* the run started carries a stored description, confidence and notes
\* unchanged.
ResumeKeepsValue ==
    pc = "done" =>
        \A r \in 1..Len(standardizedRows) :
            LET row == standardizedRows[r]
                recs == RecordsOfKey(persistedAtStart, RowKey(row))
            IN  recs # <<>> =>
                    \E i \in 1..Len(recs) :
                        /\ row.Description = recs[i].enriched_description
                        /\ row.AI_Confidence = recs[i].ai_confidence
                        /\ row.AI_Notes = <<recs[i].ai_notes>>

\* C7: when a run that resumes the ledger writes its output, the row of an
\* item with ledger records carries the values of the last of them: the
\* stored description after pattern standardisation, the stored confidence,
\* and the stored notes, when not blank, as the first part of AI_Notes.
ResumeKeepsValueOnResume ==
    (pc = "done" /\ progressItems # <<>>) =>
        \A r \in 1..Len(standardizedRows) :
            LET row == standardizedRows[r]
                recs == RecordsOfKey(progressItems, RowKey(row))
            IN  recs # <<>> =>
                    /\ Last(recs).enriched_description # <<>>
                    /\ row.Description = applyPatterns(Last(recs).enriched_description, patterns)
                    /\ row.AI_Confidence = Last(recs).ai_confidence
                    /\ Last(recs).ai_notes # "" => row.AI_Notes[1] = Last(recs).ai_notes

\* the first run was ended after it had recorded two results for the first
\* sub-task; the second run resumed, enriched the rest and wrote the rows
ResumeKeepsValueOnResumeWitness ==
    /\ pc = "done"
    /\ runs = 2
    /\ Len(RecordsOfKey(progressItems, <<0, 0>>)) = 2
    /\ Len(standardizedRows) = 2
    /\ requestedKeys = {<<0, 1>>}
    /\ standardizedRows[1].Description = <<"Fix", "Login">>

\* C8: a batch's enrichment call that throws or returns no array ends the
\* run at once with the ledger file as it was, and an ended run issues no
\* request and leaves the ledger file untouched.
BatchFailureAborts ==
    [][ /\ (pc = "enrich" /\ requests' = requests + 1 /\ pc' # "results") =>
              (pc' = "exited" /\ progressFile' = progressFile /\ batchCursor' = batchCursor)
        /\ pc = "exited" => (requests' = requests /\ progressFile' = progressFile)
      ]_vars

\* the first of three batches was recorded, the call for the second failed
BatchFailureAbortsWitness ==
    /\ pc = "exited"
    /\ Len(batches) = 3
    /\ batchCursor = 2
    /\ requestedKeys = KeysOf(batches[1]) \cup KeysOf(batches[2])
    /\ Len(readCache(progressFile)) = 1

-----------------------------------------------------------------------------
(* Further properties of Section 11, phase 1, under SpecMatch *)

\* the near subset of the exact matches of a match result, as Section 11
\* computes it
NearSubset(m) == Range(githubMatchesNearOf(m.ticketIds, m.clockifyDate, githubData))

\* the local calendar dates differ by at most one day
CalendarNear(a, b) == Abs(DayOf(a) - DayOf(b)) <= 1

\* C11: a dated exact match of a dated entry is in the near subset exactly
\* when its local calendar date differs from the entry's by at most one day.
NearIffCalendarDay ==
    pc = "semantic" =>
        \A m \in Range(matchResults) :
            (Len(m.ticketIds) > 0 /\ m.clockifyDate # NoDate) =>
                \A g \in Range(m.githubMatches) :
                    githubData[g].committed_at # NoDate =>
                        (g \in NearSubset(m)
                            <=> CalendarNear(githubData[g].committed_at, m.clockifyDate))

\* the row's description holds a ticket token
HasIdentifiers(i) == Range(clockifyRows[i + 1].Description) \cap TicketTokens # {}

\* C12: after exact matching the confidence is high iff the entry has an
\* identifier and a github or jira match, medium iff it has no identifier
\* but a match, low otherwise; the phase is "none" iff the confidence is
\* low, else "exact".
ConfidenceLevels ==
    pc = "semantic" =>
        \A m \in Range(matchResults) :
            LET matched == m.githubMatches # <<>> \/ m.jiraMatches # <<>>
            IN  /\ m.confidence \in {"high", "medium", "low"}
                /\ m.confidence = "high" <=> (HasIdentifiers(m.rowIndex) /\ matched)
                /\ m.confidence = "medium" <=> (~HasIdentifiers(m.rowIndex) /\ matched)
                /\ m.matchPhase = (IF m.confidence = "low" THEN "none" ELSE "exact")

\* an entry without identifiers that has a commit within its day window
ConfidenceLevelsWitness ==
    /\ pc = "semantic"
    /\ \E m \in Range(matchResults) :
          /\ ~HasIdentifiers(m.rowIndex)
          /\ m.githubMatches # <<>>
          /\ m.confidence = "medium"
          /\ m.matchPhase = "exact"

\* the loop over the parsed results is at a result object
HandlingResult ==
    /\ pc = "results"
    /\ pendingResults # <<>>
    /\ ~pendingResults[1].isNull

\* C25: handling one result object of a parsed response appends exactly one
\* record, of the result's key, when that key is the key of a work item of
\* the current batch, and leaves the ledger as it is otherwise; the records
\* read before are a prefix of the records read after; when the results are
\* used up the run goes on to the next batch.
AppendPerResult ==
    /\ [][(HandlingResult /\ pc' = "results") =>
            LET old == readCache(progressFile)
                new == readCache(progressFile')
            IN  IF pendingResults[1].workItemKey \in KeysOf(batches[batchCursor])
                THEN /\ Len(new) = Len(old) + 1
                     /\ SubSeq(new, 1, Len(old)) = old
                     /\ new[Len(new)].workItemKey = pendingResults[1].workItemKey
                ELSE new = old]_vars
    /\ [][(pc = "results" /\ pendingResults = <<>> /\ pc' # "killed") =>
            /\ pc' = "enrich"
            /\ batchCursor' = batchCursor + 1
            /\ progressFile' = progressFile]_vars

\* the results of the first batch were appended to a ledger that held a
\* record, and the run is at the results of its second batch
AppendPerResultWitness ==
    /\ pc = "results"
    /\ batchCursor = 2
    /\ pendingResults # <<>>
    /\ persistedAtStart # <<>>
    /\ Len(readCache(progressFile)) > Len(persistedAtStart)

\* the ledger lines of the old format the run has loaded
LegacyItems == SelectSeq(progressItems, LAMBDA rec : rec.workItemKey = <<>>)

Batched(k) == \E b \in 1..Len(batches) : k \in KeysOf(batches[b])

\* C26: a ledger line that carries an entry index only counts for sub-index
\* 0 of that entry: the work item <entry index>:0 is put in no batch, and
\* every work item of the entry with sub-index 1 or more that has no ledger
\* line of its own is put in a batch.
LegacyCoversFirst ==
    pc \in {"enrich", "results", "done"} =>
        \A n \in 1..Len(LegacyItems) :
            /\ ~Batched(WorkItemKey(LegacyItems[n].rowIndex, 0))
            /\ \A i \in 1..Len(workItems) :
                  (/\ workItems[i].rowIndex = LegacyItems[n].rowIndex
                   /\ workItems[i].subIndex >= 1
                   /\ RecordsOfKey(progressItems, workItems[i].workItemKey) = <<>>)
                      => Batched(workItems[i].workItemKey)

\* a run resumed a ledger with an old line of entry 0, which it has split,
\* and has batched the entry's second work item
LegacyCoversFirstWitness ==
    /\ pc = "enrich"
    /\ LegacyItems # <<>>
    /\ LegacyItems[1].rowIndex = 0
    /\ \E i \in 1..Len(workItems) :
          /\ workItems[i].workItemKey = WorkItemKey(0, 1)
          /\ Batched(WorkItemKey(0, 1))

\* the number of results of key k in a parsed response
RECURSIVE ResultsOfKey(_, _)
ResultsOfKey(parsed, k) ==
    IF parsed = <<>> THEN 0
    ELSE (IF ~parsed[1].isNull /\ parsed[1].workItemKey = k THEN 1 ELSE 0)
            + ResultsOfKey(Tail(parsed), k)

\* the key a ledger line stands for
KeyOfLine(rec) ==
    IF rec.workItemKey = <<>> THEN WorkItemKey(rec.rowIndex, 0) ELSE rec.workItemKey

\* no two lines of the ledger stand for the same key
NoDuplicateKeys ==
    LET items == readCache(progressFile)
    IN  \A i, j \in 1..Len(items) : i # j => KeyOfLine(items[i]) # KeyOfLine(items[j])

\* C28: over any sequence of runs, a record is only appended for a key that
\* had no line in the ledger the run took over, and the records the ledger
\* holds for that key at that moment were all appended for earlier results
\* of the same response: two records of one key never stem from two
\* requests.
OneRequestPerKey ==
    [][\A i \in 1..Len(workItems) :
          LET k == workItems[i].workItemKey
              old == RecordsOfKey(readCache(progressFile), k)
              new == RecordsOfKey(readCache(progressFile'), k)
          IN  Len(new) > Len(old) =>
                  /\ pc = "results"
                  /\ k \notin LedgerKeys(progressItems)
                  /\ k \in KeysOf(batches[batchCursor])
                  /\ Len(old) = ResultsOfKey(lastResponse.parsed, k)
                                    - ResultsOfKey(pendingResults, k)]_vars

\* a second run that took over a ledger has two records of one key, from a
\* response that named every key twice
OneRequestPerKeyWitness ==
    /\ runs = 2
    /\ pc = "results"
    /\ progressItems # <<>>
    /\ pendingResults = <<>>
    /\ \E i \in 1..Len(workItems) :
          Len(RecordsOfKey(readCache(progressFile), workItems[i].workItemKey)) = 2

\* the loop over the batches has run to its end
BatchesDone == pc = "done" \/ (pc = "enrich" /\ batchCursor > Len(batches))

Ledgered(k) == k \in LedgerKeys(readCache(progressFile))

\* a run that went through all its batches has a ledger line for every work
\* item
RunCompletesLedger ==
    BatchesDone => \A i \in 1..Len(workItems) : Ledgered(workItems[i].workItemKey)

\* C29: once the results of a response are used up, every work item of the
\* batch that the response named has a ledger line; when a run has gone
\* through all its batches, every work item has a ledger line or was carried
\* by a request whose response did not name it; and a run that took over a
\* ledger with a line for every one of its work items schedules no batch and
\* issues no enrichment request.
RunCompletesAnswered ==
    /\ (pc = "results" /\ pendingResults = <<>>) =>
          \A k \in KeysOf(batches[batchCursor]) :
              ResultsOfKey(lastResponse.parsed, k) > 0 => Ledgered(k)
    /\ BatchesDone =>
          \A i \in 1..Len(workItems) :
              \/ Ledgered(workItems[i].workItemKey)
              \/ workItems[i].workItemKey \in requestedKeys
    /\ (/\ pc \in {"enrich", "results", "done"}
        /\ \A i \in 1..Len(workItems) :
              workItems[i].workItemKey \in LedgerKeys(progressItems)) =>
          /\ batches = <<>>
          /\ requestedKeys = {}

\* a second run took over the ledger of the first, which has a line for
\* each of its two or more work items, and ended without a request
RunCompletesAnsweredWitness ==
    /\ runs = 2
    /\ pc = "done"
    /\ Len(workItems) > 1
    /\ \A i \in 1..Len(workItems) :
          RecordsOfKey(progressItems, workItems[i].workItemKey) # <<>>
    /\ batches = <<>>
    /\ requestedKeys = {}

-----------------------------------------------------------------------------
(* Specification SpecCut: the runs of Spec with terminations that cut an *)
(* append to the ledger short                                            *)

CutInit ==
    /\ RunAllIdle
    /\ clockifyRows \in RunRows
    /\ githubData = <<>>
    /\ jiraData = <<>>
    /\ pc = "start"
    /\ matchResults = <<>>
    /\ groupCursor = 0
    /\ workItems = <<>>
    /\ commitWeights = <<>>
    /\ RunLocalInit
    /\ progressFileAlt = FALSE
    /\ patternsFile = [exists |-> TRUE, groups |-> <<>>]
    /\ progressFile \in RunLedgers
    /\ requests = 0
    /\ runs = 0
    /\ SplitIdle

CutNext ==
    \/ StartRun(NoRefresh, NoPatternsFound, Accepted)
    \/ ExactMatching
    \/ SemanticMatching(CallFails)
    \/ Aggregation
    \/ DecomposeGroup(RunDecompositions)
    \/ BuildWorkItems(Accepted)
    \/ ResumeDetection(ResumeOrFresh)
    \/ SmartBatching
    \/ EnrichBatch(FailOrOnce)
    \/ HandleResult
    \/ NextBatch
    \/ OutputAssembly
    \/ Kill
    \/ KillInAppend
    \/ Rerun(MaxRuns)

SpecCut == CutInit /\ [][CutNext]_vars

\* the record the loop is about to append, for a result of the batch
RecordAtHand ==
    RecordOf(batches[batchCursor]
                 [FindTarget(batches[batchCursor], pendingResults[1].workItemKey)],
             pendingResults[1])

\* an append to the ledger runs to its end
Appending ==
    /\ HandlingResult
    /\ FindTarget(batches[batchCursor], pendingResults[1].workItemKey) # 0
    /\ pc' = "results"

\* C27: whenever the process is terminated, also within an append, the
\* records read from the ledger are the records read before, and every
\* append that runs to its end, in the interrupted run or in a later one,
\* adds its record to the records read.
LedgerKeepsCompleted ==
    /\ [][pc' = "killed" => readCache(progressFile') = readCache(progressFile)]_vars
    /\ [][Appending =>
            readCache(progressFile') = Append(readCache(progressFile), RecordAtHand)]_vars

\* a termination never changes the records read, and an append to a ledger
\* that ends with a line end adds its record
LedgerKeepsCompletedAfterLineEnd ==
    /\ [][pc' = "killed" => readCache(progressFile') = readCache(progressFile)]_vars
    /\ [][(Appending /\ ~Unended(progressFile)) =>
            readCache(progressFile') = Append(readCache(progressFile), RecordAtHand)]_vars

-----------------------------------------------------------------------------
(* Specification SpecSemantic: Section 11, both phases, on one or two rows *)
(* and any semantic response of up to MaxResults elements                  *)

MaxResults == 2

\* an entry with an identifier and a commit for it, an entry without
\* identifier on the day of a commit, an undated entry, and an entry whose
\* identifier no evidence mentions
SemanticRowChoices ==
    { Row(<<"fix", "SD-1">>, DayOne, <<1, 0>>),
      Row(<<"meeting">>, DayOne, <<1, 0>>),
      Row(<<"chore">>, NoDate, <<1, 0>>),
      Row(<<"SD-2">>, DayOne, <<1, 0>>) }

\* a commit for SD-1 on the entries' day and one without identifiers three
\* days later
SemanticCommits ==
    WithShas(<< Commit(<<"SD-1">>, DayOne + Hour), Commit(<<>>, DayOne + 3 * Day) >>)

\* an element of the semantic response
SemanticResult(rowIndex, github, jira, confidence) ==
    [ rowIndex |-> rowIndex, github_match |-> github, jira_match |-> jira,
      confidence |-> confidence ]

SemanticResults ==
    { SemanticResult(i, g, j, c) :
        i \in {0, 1, 5}, g \in {<<>>, <<0, 2>>}, j \in {NoTicket, "SD-1"}, c \in {"", "low"} }

SemanticResponses ==
    { Throw, Other } \cup { Array(rs) : rs \in SeqsUpTo(SemanticResults, MaxResults) }

SemanticInit ==
    /\ RunAllIdle
    /\ clockifyRows \in SeqsUpTo(SemanticRowChoices, 2) \ {<<>>}
    /\ githubData = SemanticCommits
    /\ jiraData \in MatchJira
    /\ pc = "match"
    /\ matchResults = <<>>
    /\ groupCursor = 0
    /\ workItems = <<>>
    /\ commitWeights = <<>>
    /\ RunLocalInit
    /\ progressFileAlt = FALSE
    /\ patternsFile = [exists |-> TRUE, groups |-> <<>>]
    /\ progressFile = NoFile
    /\ requests = 0
    /\ runs = 1
    /\ SplitIdle

SemanticNext ==
    \/ ExactMatching
    \/ SemanticMatching(SemanticResponses)
    \/ Aggregation

SpecSemantic == SemanticInit /\ [][SemanticNext]_vars

\* the match result of row i (1-based position) as phase 1 leaves it
ExactPhaseValue(i) == ExactMatch(i - 1, clockifyRows[i], githubData, jiraData)

\* C13: when phase 2 has ended, every entry matched in phase 1 (confidence
\* high or medium) still has its phase-1 match result: phase "exact", the
\* same confidence and the same evidence.
SemanticLeavesExactAlone ==
    pc = "aggregate" =>
        \A i \in 1..Len(matchResults) :
            ExactPhaseValue(i).matchPhase = "exact" => matchResults[i] = ExactPhaseValue(i)

\* C14: a semantic call that is rejected or answers no array is followed by
\* aggregation, with every match result as phase 1 left it.
SemanticFailureNotFatal ==
    [][ (pc = "semantic" /\ lastResponse'.kind \in {"throw", "other"}) =>
            /\ pc' = "aggregate"
            /\ Len(matchResults') = Len(clockifyRows)
            /\ \A i \in 1..Len(clockifyRows) : matchResults'[i] = ExactPhaseValue(i)
      ]_vars

\* the semantic call for an unmatched entry was rejected; another entry had
\* been matched in phase 1
SemanticFailureNotFatalWitness ==
    /\ pc = "aggregate"
    /\ lastResponse.kind = "throw"
    /\ Len(matchResults) = 2
    /\ matchResults[1].matchPhase = "exact"
    /\ matchResults[2].matchPhase = "none"

-----------------------------------------------------------------------------
(* Further properties of Section 13 under SpecHours.  They are read off the *)
(* state a decomposition call leaves: the response is lastResponse and the  *)
(* group is the one before groupCursor.                                     *)

\* a group has just been decomposed from an array of sub-tasks
JustDecomposed ==
    /\ pc = "decompose"
    /\ groupCursor > 1
    /\ lastResponse.kind = "array"
    /\ ~ReconcileThrows(lastResponse.parsed,
                        TotalHours(matchResults, clockifyRows,
                                   Groups(matchResults, clockifyRows)[groupCursor - 1]))

DecomposedEntries == Groups(matchResults, clockifyRows)[groupCursor - 1]
DecomposedTotal == TotalHours(matchResults, clockifyRows, DecomposedEntries)
ReturnedSubTasks == lastResponse.parsed
ReconciledSubTasks == Reconcile(ReturnedSubTasks, DecomposedTotal)

HoursOf(ts) == [k \in 1..Len(ts) |-> ts[k].hours]

\* every returned sub-task has a number as hours
NumericHours(ts) == \A k \in 1..Len(ts) : ts[k].hours # NaN

\* the returned hours deviate from the group's total by more than 1e-3
NeedsReconciliation ==
    /\ JustDecomposed
    /\ ReturnedSubTasks # <<>>
    /\ NumericHours(ReturnedSubTasks)
    /\ Abs(SumSeq(HoursOf(ReturnedSubTasks)) - DecomposedTotal) > MilliHour

\* C15 as stated: the last sub-task gets exactly totalHours - S, no other
\* sub-task changes and the corrected list sums to totalHours exactly.
ReconcileAbsorbsDeltaExactly ==
    NeedsReconciliation =>
        LET n == Len(ReturnedSubTasks)
            S == SumSeq(HoursOf(ReturnedSubTasks))
        IN  /\ Len(ReconciledSubTasks) = n
            /\ \A k \in 1..(n - 1) : ReconciledSubTasks[k] = ReturnedSubTasks[k]
            /\ ReconciledSubTasks[n].hours = ReturnedSubTasks[n].hours + (DecomposedTotal - S)
            /\ SumSeq(HoursOf(ReconciledSubTasks)) = DecomposedTotal

\* C15: when numeric sub-task hours sum to S more than 1e-3 off totalHours,
\* the last sub-task gets totalHours - S rounded to 6 decimals and is then
\* itself rounded to 6 decimals, no other sub-task changes, and the
\* corrected list sums to totalHours within 1e-6.
ReconcileAbsorbsDelta ==
    NeedsReconciliation =>
        LET n == Len(ReturnedSubTasks)
            S == SumSeq(HoursOf(ReturnedSubTasks))
        IN  /\ Len(ReconciledSubTasks) = n
            /\ \A k \in 1..(n - 1) : ReconciledSubTasks[k] = ReturnedSubTasks[k]
            /\ ReconciledSubTasks[n].hours =
                  toFixed6(ReturnedSubTasks[n].hours + toFixed6(DecomposedTotal - S))
            /\ Abs(SumSeq(HoursOf(ReconciledSubTasks)) - DecomposedTotal) <= MicroHour

\* a 1:20 entry whose three sub-tasks were returned with 1 h each
ReconcileAbsorbsDeltaWitness ==
    /\ NeedsReconciliation
    /\ DecomposedTotal = Hour + 20 * Minute
    /\ HoursOf(ReturnedSubTasks) = <<Hour, Hour, Hour>>
    /\ SumSeq(HoursOf(ReconciledSubTasks)) # DecomposedTotal

\* the sub-tasks assigned to the members of the group, in member order
AssignedSubTasks ==
    FlatMap(LAMBDA e : matchResults[e].subTasks, DecomposedEntries)

\* the hours assigned, over all members, from the k-th reconciled sub-task
AssignedHours(k) ==
    SumSeq(HoursOf(SelectSeq(AssignedSubTasks,
        LAMBDA t : t.description = ReconciledSubTasks[k].description)))

\* C16 as stated: for every list of numeric hours, the hours assigned over
\* all members equal, sub-task by sub-task, those of the reconciled list.
EverySubTaskHourConsumed ==
    (JustDecomposed /\ NumericHours(ReturnedSubTasks)) =>
        \A k \in 1..Len(ReconciledSubTasks) :
            AssignedHours(k) = ReconciledSubTasks[k].hours

OnGrid(x) == x % MicroHour = 0

\* the reconciled hours are positive, have at most 6 decimals like the
\* members' durations, and sum exactly to the group's total
CleanSubTasks ==
    /\ JustDecomposed
    /\ NumericHours(ReturnedSubTasks)
    /\ \A k \in 1..Len(ReconciledSubTasks) :
          ReconciledSubTasks[k].hours > 0 /\ OnGrid(ReconciledSubTasks[k].hours)
    /\ \A e \in Range(DecomposedEntries) : OnGrid(EntryHours(matchResults[e].rowIndex))
    /\ SumSeq(HoursOf(ReconciledSubTasks)) = DecomposedTotal

\* C16: when the reconciled sub-tasks have positive hours of at most 6
\* decimals that sum exactly to the group's total, the walk over the members
\* assigns every reconciled sub-task and the hours assigned over all
\* members equal, sub-task by sub-task, those of the reconciled list.
CleanSubTasksConsumed ==
    CleanSubTasks =>
        /\ \A k \in 1..Len(ReconciledSubTasks) :
              AssignedHours(k) = ReconciledSubTasks[k].hours
        /\ SumSeq(HoursOf(AssignedSubTasks)) = DecomposedTotal

\* the group of two entries, with a sub-task cut at the boundary
CleanSubTasksConsumedWitness ==
    /\ CleanSubTasks
    /\ Len(DecomposedEntries) = 2
    /\ Len(ReconciledSubTasks) = 3
    /\ Len(AssignedSubTasks) = 4

\* the group (3h, 2h) decomposed into (2h, 2h, 1h)
CursorExample ==
    /\ JustDecomposed
    /\ Len(DecomposedEntries) = 2
    /\ EntryHours(0) = 3 * Hour
    /\ EntryHours(1) = 2 * Hour
    /\ HoursOf(ReturnedSubTasks) = <<2 * Hour, 2 * Hour, Hour>>

\* C17 as stated: entry1 = [2h, 1h] and entry2 = [1h, 2h].
CursorExampleAsStated ==
    CursorExample =>
        /\ HoursOf(matchResults[1].subTasks) = <<2 * Hour, Hour>>
        /\ HoursOf(matchResults[2].subTasks) = <<Hour, 2 * Hour>>

\* C17: entries (3h, 2h) with sub-tasks (2h, 2h, 1h) get entry1 = [2h, 1h]
\* (the first sub-task and 1h of the second) and entry2 = [1h, 1h] (the
\* rest of the second sub-task and the third): 5h in all, every sub-task
\* hour used once.
CursorExampleCorrected ==
    CursorExample =>
        /\ HoursOf(matchResults[1].subTasks) = <<2 * Hour, Hour>>
        /\ HoursOf(matchResults[2].subTasks) = <<Hour, Hour>>
        /\ matchResults[1].subTasks[2].description = ReturnedSubTasks[2].description
        /\ matchResults[2].subTasks[1].description = ReturnedSubTasks[2].description
        /\ matchResults[2].subTasks[2].description = ReturnedSubTasks[3].description
        /\ SumSeq(HoursOf(AssignedSubTasks)) = 5 * Hour
        /\ \A k \in 1..3 : AssignedHours(k) = ReturnedSubTasks[k].hours

CursorExampleWitness ==
    /\ CursorExample
    /\ Len(AssignedSubTasks) = 4

-----------------------------------------------------------------------------
(* Specification SpecDecompose: Sections 12 to 13b over entries that fall
   into two groups, both of which are decomposed *)

\* two entries naming two tickets each, with different first tickets; two
\* entries of one ticket around an entry that names another ticket first
DecomposeRows ==
    { << Row(<<"fix", "SD-1", "SD-2">>, DayOne + 9 * Hour, <<3, 0>>),
         Row(<<"review", "SD-2", "SD-1">>, DayOne + 13 * Hour, <<2, 0>>) >>,
      << Row(<<"fix", "SD-1">>, DayOne + 9 * Hour, <<3, 0>>),
         Row(<<"review", "SD-2", "SD-1">>, DayOne + 13 * Hour, <<2, 0>>),
         Row(<<"SD-1">>, DayOne + Day + 9 * Hour, <<2, 0>>) >> }

DecomposeHours == {Hour, 2 * Hour}

\* a failed call, output that is no array, an empty array, and lists of
\* sub-tasks of 1 h and 2 h
DecomposeResponses ==
    { Throw, Other } \cup
    { Array([i \in 1..Len(hs) |->
                [SubTask(hs[i], NoTicket) EXCEPT !.description = <<"task", ToString(i)>>]]) :
        hs \in SeqsUpTo(DecomposeHours, MaxSubTasks) }

DecomposeInit ==
    /\ RunAllIdle
    /\ clockifyRows \in DecomposeRows
    /\ githubData = <<>>
    /\ jiraData = <<>>
    /\ pc = "start"
    /\ matchResults = <<>>
    /\ groupCursor = 0
    /\ workItems = <<>>
    /\ commitWeights = <<>>
    /\ RunLocalInit
    /\ progressFileAlt = FALSE
    /\ patternsFile = [exists |-> TRUE, groups |-> <<>>]
    /\ progressFile = NoFile
    /\ requests = 0
    /\ runs = 0
    /\ SplitIdle

DecomposeNext ==
    \/ StartRun(NoRefresh, NoPatternsFound, Accepted)
    \/ ExactMatching
    \/ SemanticMatching(CallFails)
    \/ Aggregation
    \/ DecomposeGroup(DecomposeResponses)
    \/ BuildWorkItems(YesOrNo)

SpecDecompose == DecomposeInit /\ [][DecomposeNext]_vars

\* the group the loop of Section 13 is at
CurrentGroup == Groups(matchResults, clockifyRows)[groupCursor]

\* the decomposition call of the current group is being made
Decomposing ==
    /\ pc = "decompose"
    /\ groupCursor >= 1
    /\ groupCursor <= Len(Groups(matchResults, clockifyRows))
    /\ shouldDecompose(matchResults, CurrentGroup)

\* the call threw, or its output is no array or an empty one
DecompositionFailed(resp) ==
    \/ resp.kind \in {"throw", "other"}
    \/ resp.kind = "array" /\ resp.parsed = <<>>

-----------------------------------------------------------------------------
(* Specification SpecRunAll: invocations of run-all, one after the other *)

MaxInvocations == 3

\* --yes given or not, and the answers to "Resume from step N? [y/n]"
YesFlagOrNot == BOOLEAN
ResumeAnswers == {"y", "yes", "n", ""}

\* a step exits with 0 or 1, is ended by a signal, or cannot be spawned
StepOutcomes == { Close(0), Close(1), Close(Null), SpawnError }

RunAllInit ==
    /\ RunAllIdle
    /\ SplitIdle
    /\ RunIdle

RunAllNext ==
    \/ Main(YesFlagOrNot, MaxInvocations)
    \/ Answer(ResumeAnswers)
    \/ RunStep(StepOutcomes)
    \/ Interrupt

SpecRunAll == RunAllInit /\ [][RunAllNext]_vars

\* how the latest step of this invocation ended
HowEnded ==
    IF lastExit.kind = "close"
    THEN IF lastExit.code = Null THEN "signal"
         ELSE IF lastExit.code = 0 THEN "success" ELSE "nonzero"
    ELSE lastExit.kind

\* the ways a step can fail: a non-zero exit code, a spawn error, the end
\* by a signal, the interruption together with run-all
AnyFailure == {"nonzero", "error", "signal", "interrupt"}

\* the failures run-all is told of by an exit code
ExitCodeFailure == {"nonzero", "error"}

\* the latest step of this invocation failed, in one of the ways of kinds
StepFailed(kinds) == HowEnded \in kinds

\* the steps spawned are consecutive, from startFrom on
InOrder ==
    \A k \in 1..Len(stepsRun) : stepsRun[k] = startFrom + k - 1

\* the contract of run-all on every state, for the given ways in which a
\* step fails
RunAllState(kinds) ==
    /\ InOrder
    /\ reportedStep = -1 /\ mainPc # "ask" => startFrom = 0
    /\ StepFailed(kinds) =>
          /\ mainPc # "loop"
          /\ stateFile = writeState([completed |-> FALSE, failedStep |-> lastExit.step])
    /\ mainPc = "done" =>
          /\ stateFile = NoState
          /\ stepsRun # <<>>
          /\ stepsRun[Len(stepsRun)] = Len(STEPS) - 1

\* the contract of run-all on every step: the invocation after a failure,
\* and the answer to the question
RunAllStep(kinds) ==
    /\ (StepFailed(kinds) /\ invocations' # invocations) =>
          /\ reportedStep' = lastExit.step
          /\ IF yesFlag'
             THEN mainPc' = "loop" /\ startFrom' = lastExit.step
             ELSE mainPc' = "ask"
    /\ (mainPc = "ask" /\ mainPc' # "ask") =>
          \/ /\ startFrom' = reportedStep
             /\ stepIndex' = reportedStep
             /\ stateFile' = stateFile
          \/ /\ startFrom' = 0
             /\ stepIndex' = 0
             /\ stateFile' = NoState

\* C19: run-all runs the steps in order; a step that fails, in whatever
\* way, stops the run with the failed step persisted, and the next
\* invocation reports it and resumes at it with --yes or asks; an accepted
\* resume starts at the failed step, a declined one clears the state and
\* starts at step 1; after the last step has succeeded no state remains.
RunAllResume ==
    [](RunAllState(AnyFailure)) /\ [][RunAllStep(AnyFailure)]_vars

\* the same, for the steps that fail with a non-zero exit code or cannot be
\* spawned
RunAllResumeOnExitCode ==
    [](RunAllState(ExitCodeFailure)) /\ [][RunAllStep(ExitCodeFailure)]_vars

\* an invocation resumed at step 3 after the question and ran to the end
RunAllResumeOnExitCodeWitness ==
    /\ mainPc = "done"
    /\ ~yesFlag
    /\ reportedStep = 2
    /\ stepsRun = <<2, 3, 4>>

\* a step is spawned after another one of the same invocation
NextStepSpawned ==
    /\ stepsRun # <<>>
    /\ stepsRun' # stepsRun
    /\ invocations' = invocations

\* the step's process was ended by a signal, or could not be spawned
AbnormalEnd == {"signal", "error"}

\* the latest step is written to the state file as failed and the loop is
\* left
FailureRecorded ==
    /\ mainPc # "loop"
    /\ stateFile = writeState([completed |-> FALSE, failedStep |-> lastExit.step])

\* C30: a step is started after another one only when that one ended with
\* exit code 0; a step ended by a signal or not spawned at all is recorded
\* as failed and no step is started after it.
StepOnlyAfterSuccess ==
    /\ [](StepFailed(AbnormalEnd) => FailureRecorded)
    /\ [][NextStepSpawned =>
            (HowEnded = "success" /\ stepsRun' = Append(stepsRun, lastExit.step + 1))]_vars

\* a step is started after another one only when that one closed with exit
\* code 0 or with none; a step that could not be spawned or closed with
\* another exit code is recorded as failed and no step is started after it
StepOnlyAfterCodeZeroOrNone ==
    /\ [](StepFailed(ExitCodeFailure) => FailureRecorded)
    /\ [][NextStepSpawned =>
            (/\ HowEnded \in {"success", "signal"}
             /\ stepsRun' = Append(stepsRun, lastExit.step + 1))]_vars

-----------------------------------------------------------------------------
(* Specification SpecRefresh: runs of the enricher, with and without
   --force-refresh, over a cache directory that holds GitHub and Jira
   summaries and may hold patterns and ledgers of earlier runs *)

RefreshRows == << Row(<<"fix", "SD-1">>, DayOne + 9 * Hour, <<1, 0>>),
                  Row(<<"meeting">>, DayOne + 11 * Hour, <<1, 0>>) >>

RefreshPatterns ==
    { NoPatterns, [exists |-> TRUE, groups |-> <<>>],
      [exists |-> TRUE, groups |-> <<LoginGroup>>] }

RefreshInit ==
    /\ RunAllIdle
    /\ clockifyRows = RefreshRows
    /\ githubData = SemanticCommits
    /\ jiraData = <<Jira("SD-1", 0)>>
    /\ pc = "start"
    /\ matchResults = <<>>
    /\ groupCursor = 0
    /\ workItems = <<>>
    /\ commitWeights = <<>>
    /\ patterns = <<>>
    /\ processedKeys = {}
    /\ batches = <<>>
    /\ batchCursor = 0
    /\ pendingResults = <<>>
    /\ standardizedRows = <<>>
    /\ persistedAtStart = <<>>
    /\ progressItems = <<>>
    /\ requestedKeys = {}
    /\ lastResponse = NoResponse
    /\ forceRefresh = FALSE
    /\ patternsFile \in RefreshPatterns
    /\ progressFile \in RunLedgers
    /\ progressFileAlt \in BOOLEAN
    /\ requests = 0
    /\ runs = 0
    /\ SplitIdle

RefreshNext ==
    \/ StartRun(RefreshOrNot, RunPatternResponses, YesOrNo)
    \/ ExactMatching
    \/ SemanticMatching(CallFails)
    \/ Aggregation
    \/ DecomposeGroup(CallFails)
    \/ BuildWorkItems(Accepted)
    \/ ResumeDetection(ResumeOrFresh)
    \/ SmartBatching
    \/ EnrichBatch(FailOrOnce)
    \/ HandleResult
    \/ NextBatch
    \/ OutputAssembly
    \/ Kill
    \/ Rerun(MaxRuns)

SpecRefresh == RefreshInit /\ [][RefreshNext]_vars

\* the step is the start of a run with --force-refresh
ForcedStart == pc = "start" /\ runs' = runs + 1 /\ forceRefresh'

\* Sections 9 and 10 leave cache/patterns.json missing or newly written
\* from the pattern response of this run
PatternsRemoved ==
    \/ patternsFile' = NoPatterns
    \/ /\ lastResponse'.kind = "object"
       /\ patternsFile' = [exists |-> TRUE, groups |-> lastResponse'.parsed]

WorkItemsPerEntry ==
    workItems # <<>> =>
        /\ \A i \in 0..(Len(clockifyRows) - 1) :
              LET wis == WorkItemsOfEntry(i)
                  k == Len(matchResults[i + 1].subTasks)
              IN  IF k >= 1
                  THEN /\ Len(wis) = k
                       /\ \A n \in 1..k :
                            /\ wis[n].workItemKey = <<i, n - 1>>
                            /\ wis[n].splitGroupId # 0
                            /\ wis[n].splitGroupId = wis[1].splitGroupId
                            /\ wis[n].subTaskCount = k
                  ELSE /\ Len(wis) = 1
                       /\ wis[1].workItemKey = <<i, 0>>
                       /\ wis[1].splitGroupId = 0
        /\ \A a, b \in 1..Len(workItems) :
              a # b => workItems[a].workItemKey # workItems[b].workItemKey

\* work items built for an entry of several sub-tasks and for an entry of none
WorkItemsPerEntryWitness ==
    /\ workItems # <<>>
    /\ \E i \in 1..Len(matchResults) : Len(matchResults[i].subTasks) >= 2
    /\ \E i \in 1..Len(matchResults) : matchResults[i].subTasks = <<>>

-----------------------------------------------------------------------------
(* The weighted hour targets of the decomposition prompt *)

MaxLines == 2
MaxPoints == 2

\* one entry that names two tickets, and two entries of one ticket on
\* successive days, the second of them naming another ticket too or not
WeightRows ==
    { << Row(<<"SD-1", "SD-2">>, DayOne, <<1, 0>>) >>,
      << Row(<<"SD-1", "SD-2">>, DayOne, <<2, 0>>) >>,
      << Row(<<"SD-1">>, DayOne, <<1, 0>>), Row(<<"SD-1">>, DayOne + Day, <<2, 0>>) >>,
      << Row(<<"SD-1">>, DayOne, <<1, 0>>),
         Row(<<"SD-1", "SD-2">>, DayOne + Day, <<2, 0>>) >> }

\* two commits with 0..MaxLines changed lines each
WeightCommits ==
    { WithShas(<< [Commit(<<"SD-1">>, DayOne + Hour) EXCEPT !.lines_added = a],
                  [Commit(t, DayOne + 2 * Hour) EXCEPT !.lines_removed = b] >>) :
        a \in 0..MaxLines, b \in 0..MaxLines, t \in {<<"SD-2">>, <<"SD-1", "SD-2">>} }

WeightJira ==
    { << Jira("SD-1", p), Jira("SD-2", q) >> : p \in 0..MaxPoints, q \in 0..MaxPoints }

WeightResponses == { Throw, Array(<<SubTask(Hour, NoTicket)>>) }

WeightInit ==
    /\ RunAllIdle
    /\ clockifyRows \in WeightRows
    /\ githubData \in WeightCommits
    /\ jiraData \in WeightJira
    /\ pc = "start"
    /\ matchResults = <<>>
    /\ groupCursor = 0
    /\ workItems = <<>>
    /\ commitWeights = <<>>
    /\ RunLocalInit
    /\ progressFileAlt = FALSE
    /\ patternsFile = [exists |-> TRUE, groups |-> <<>>]
    /\ progressFile = NoFile
    /\ requests = 0
    /\ runs = 0
    /\ SplitIdle

WeightNext ==
    \/ StartRun(NoRefresh, NoPatternsFound, Accepted)
    \/ ExactMatching
    \/ SemanticMatching(CallFails)
    \/ Aggregation
    \/ DecomposeGroup(WeightResponses)
    \/ BuildWorkItems(YesOrNo)

SpecWeights == WeightInit /\ [][WeightNext]_vars

\* the scores of the distinct commits of the group being decomposed
CurrentScores ==
    CommitScores(UniqueGithubMatches(matchResults, CurrentGroup, githubData),
                 AllJiraMatches(matchResults, CurrentGroup), githubData, jiraData)

\* the prompt of the group being decomposed is built over two or more
\* distinct commits
Weighting ==
    /\ Decomposing
    /\ Len(UniqueGithubMatches(matchResults, CurrentGroup, githubData)) > 1

\* totalHours x score / total score per commit, and totalHours / n per
\* commit when every score is zero
TargetsByScore(scores, totalHours) ==
    [k \in 1..Len(scores) |->
        IF \A i \in 1..Len(scores) : scores[i] = 0
        THEN WeightedHours(totalHours, 1, Len(scores))
        ELSE WeightedHours(totalHours, scores[k], SumSeq(scores))]

\* C21: with two or more distinct commits in the group, the target hours of
\* each commit are totalHours x (score / total score) whenever some score is
\* not zero, and totalHours / number of commits only when all scores are zero
WeightsProportional ==
    [][(Weighting /\ groupCursor' = groupCursor + 1) =>
          [k \in 1..Len(commitWeights') |-> commitWeights'[k].hours]
              = TargetsByScore(CurrentScores,
                               TotalHours(matchResults, clockifyRows, CurrentGroup))]_vars

\* the targets follow the scores whenever the scores do not sum to the
\* number of commits
WeightsProportionalOffSum ==
    [][(/\ Weighting
        /\ groupCursor' = groupCursor + 1
        /\ SumSeq(CurrentScores) # Len(CurrentScores)) =>
          [k \in 1..Len(commitWeights') |-> commitWeights'[k].hours]
              = TargetsByScore(CurrentScores,
                               TotalHours(matchResults, clockifyRows, CurrentGroup))]_vars


\* the entries aggregated with entry i (0-based), i included
Members(i) == GroupOf(matchResults, clockifyRows, i + 1)

\* the evidence of the members of a group, one after the other
GroupGithub(entries) == FlatMap(LAMBDA e : matchResults[e].githubMatches, entries)
GroupJira(entries) == FlatMap(LAMBDA e : matchResults[e].jiraMatches, entries)

CarriesGroupEvidence(wi) ==
    /\ wi.githubMatches = GroupGithub(Members(wi.rowIndex))
    /\ wi.jiraMatches = GroupJira(Members(wi.rowIndex))

CarriesOwnEvidence(wi) ==
    /\ wi.githubMatches = matchResults[wi.rowIndex + 1].githubMatches
    /\ wi.jiraMatches = matchResults[wi.rowIndex + 1].jiraMatches

\* every work item of an entry of a group of several members carries the
\* group's evidence, split or not
GroupEvidenceAlways ==
    \A n \in 1..Len(workItems) :
        IF Len(Members(workItems[n].rowIndex)) > 1
        THEN CarriesGroupEvidence(workItems[n])
        ELSE CarriesOwnEvidence(workItems[n])

\* C23: the work items of an entry that has sub-tasks and belongs to a
\* group of several members carry the group's evidence, the members'
\* evidence one after the other; the work item of any other entry, a member
\* of an undecomposed group included, carries that entry's own evidence.
GroupEvidenceOnSplit ==
    \A n \in 1..Len(workItems) :
        IF /\ Len(Members(workItems[n].rowIndex)) > 1
           /\ matchResults[workItems[n].rowIndex + 1].subTasks # <<>>
        THEN CarriesGroupEvidence(workItems[n])
        ELSE CarriesOwnEvidence(workItems[n])

\* work items built from the sub-tasks of a group of two members with
\* different commits
GroupEvidenceOnSplitWitness ==
    /\ workItems # <<>>
    /\ Len(clockifyRows) = 2
    /\ Len(Members(0)) = 2
    /\ matchResults[1].githubMatches # matchResults[2].githubMatches
    /\ matchResults[1].githubMatches # <<>>
    /\ \A i \in 1..2 : matchResults[i].subTasks # <<>>

====
